---- MODULE Spec2Model ----
(***************************************************************************)
(* A model of sai's command decision layer: the shell-word tokenizer, the  *)
(* forbidden-operator scanner, the tool whitelist, command validation, the *)
(* two execution strategies and the run_with_reader pipeline around them.  *)
(*                                                                         *)
(* A string is a sequence of one-character strings; a token sequence is a  *)
(* sequence of such strings.                                               *)
(***************************************************************************)
EXTENDS Integers, Sequences, FiniteSets, TLC

VARIABLES
    pc,            \* position of the modelled call
    cli,           \* the parsed command line (Cli): op and the flags
    allowed_tools, \* the tool names of the active prompt configuration
    cmd_line,      \* the raw command line (generator output / function input)
    verdict,       \* what validate_and_split_command returned
    scan_out,      \* what detect_forbidden_operator returned, with its final state
    summary,       \* the RunSummary under construction
    outcome,       \* result of run_with_reader: "none", "Ok" or "Err"
    calls,         \* which collaborators were invoked, how often and with what
    exec_calls,    \* arguments of every CommandExecutor::execute call, in order
    spawned,       \* every process the executor asked the OS to start, in order
    files,         \* names present in the working directory (for glob)
    glob_out,      \* result of the last expand_glob_if_needed call, or None
    wait_status,   \* what the OS answered to each spawn, in order
    history,       \* the history log, its backup, and the write_entry calls made
    imp            \* an import of a prompt file into the global config

vars == <<pc, cli, allowed_tools, cmd_line, verdict, scan_out, summary, outcome,
          calls, exec_calls, spawned, files,
          glob_out, wait_status, history, imp>>

(***************************************************************************)
(* Bounds.                                                                 *)
(***************************************************************************)
MaxScanLen == 4
MaxRawLen == 4
MaxCmdLen == 5
MaxGlobLen == 3
MaxWrites == 3
MaxTools == 2
MaxChoices == 3

None == "None"

\* The backtick character, and the text the scanner reports for it (the
\* backtick itself cannot be written inside a TLA+ string).
Backtick == "BT"
BacktickOp == "BT...BT"

\* All strings over alphabet A of length at most n.
StringsUpTo(A, n) == UNION {[1..k -> A] : k \in 0..n}

(***************************************************************************)
(* OperatorScanner: detect_forbidden_operator.                             *)
(***************************************************************************)
ScanAlphabet ==
    {"a", "'", "\"", "\\", "|", "&", ";", ">", "<", Backtick, "$", "(", "{"}

\* chars.peek() at position i: the next character, or None at end of input.
Peek(s, i) == IF i < Len(s) THEN s[i + 1] ELSE None

ScanInit == [in_single |-> FALSE, in_double |-> FALSE, escaped |-> FALSE,
             result |-> None]

\* The second match of the loop body: command and parameter substitution,
\* None when c starts neither.
SubstitutionOp(c, next) ==
    IF c = "$" /\ next = "(" THEN "$(...)"
    ELSE IF c = "$" /\ next = "{" THEN "${...}"
    ELSE IF c = Backtick THEN BacktickOp
    ELSE None

\* Variant: `|&` is not told apart from `|`.
ControlOp_without_pipe_amp(c, next) ==
    IF c = "|" THEN (IF next = "|" THEN "||" ELSE "|")
    ELSE IF c = "&" THEN (IF next = "&" THEN "&&" ELSE "&")
    ELSE IF c = ";" THEN ";"
    ELSE IF c = ">" THEN (IF next = ">" THEN ">>" ELSE IF next = "(" THEN ">(" ELSE ">")
    ELSE IF c = "<" THEN (IF next = "<" THEN "<<" ELSE IF next = "(" THEN "<(" ELSE "<")
    ELSE None

\* Variant: the one-character form is reported without looking at the next
\* character.
ControlOp_one_char(c, next) ==
    IF c \in {"|", "&", ";", ">", "<"} THEN c ELSE None

\* Variant: the `;` arm is missing.
ControlOp_without_semicolon(c, next) ==
    IF c = "|" THEN (IF next = "|" THEN "||" ELSE IF next = "&" THEN "|&" ELSE "|")
    ELSE IF c = "&" THEN (IF next = "&" THEN "&&" ELSE "&")
    ELSE IF c = ">" THEN (IF next = ">" THEN ">>" ELSE IF next = "(" THEN ">(" ELSE ">")
    ELSE IF c = "<" THEN (IF next = "<" THEN "<<" ELSE IF next = "(" THEN "<(" ELSE "<")
    ELSE None

\* The third match of the loop body: pipes, lists, redirections, with the
\* two-character forms found by peeking; None when c is no operator.
ControlOp(c, next) ==
    IF c = "|" THEN (IF next = "|" THEN "||" ELSE IF next = "&" THEN "|&" ELSE "|")
    ELSE IF c = "&" THEN (IF next = "&" THEN "&&" ELSE "&")
    ELSE IF c = ";" THEN ";"
    ELSE IF c = ">" THEN (IF next = ">" THEN ">>" ELSE IF next = "(" THEN ">(" ELSE ">")
    ELSE IF c = "<" THEN (IF next = "<" THEN "<<" ELSE IF next = "(" THEN "<(" ELSE "<")
    ELSE None

\* Variant: a single quote toggles in_single inside double quotes too.
ScanChar_quotes_nest(st, c, next) ==
    IF st.escaped THEN [st EXCEPT !.escaped = FALSE]
    ELSE IF c = "\\" /\ ~st.in_single THEN [st EXCEPT !.escaped = TRUE]
    ELSE IF c = "'" THEN [st EXCEPT !.in_single = ~st.in_single]
    ELSE IF c = "\"" /\ ~st.in_single THEN [st EXCEPT !.in_double = ~st.in_double]
    ELSE IF st.in_single THEN st
    ELSE IF SubstitutionOp(c, next) # None
         THEN [st EXCEPT !.result = SubstitutionOp(c, next)]
    ELSE IF st.in_double THEN st
    ELSE [st EXCEPT !.result = ControlOp(c, next)]

\* Variant: double quotes do not hide the control operators.
ScanChar_double_quotes_transparent(st, c, next) ==
    IF st.escaped THEN [st EXCEPT !.escaped = FALSE]
    ELSE IF c = "\\" /\ ~st.in_single THEN [st EXCEPT !.escaped = TRUE]
    ELSE IF c = "'" /\ ~st.in_double THEN [st EXCEPT !.in_single = ~st.in_single]
    ELSE IF c = "\"" /\ ~st.in_single THEN [st EXCEPT !.in_double = ~st.in_double]
    ELSE IF st.in_single THEN st
    ELSE IF SubstitutionOp(c, next) # None
         THEN [st EXCEPT !.result = SubstitutionOp(c, next)]
    ELSE [st EXCEPT !.result = ControlOp(c, next)]

\* Variant: the escape flag, once armed, is never cleared.
ScanChar_escape_sticks(st, c, next) ==
    IF st.escaped THEN st
    ELSE IF c = "\\" /\ ~st.in_single THEN [st EXCEPT !.escaped = TRUE]
    ELSE IF c = "'" /\ ~st.in_double THEN [st EXCEPT !.in_single = ~st.in_single]
    ELSE IF c = "\"" /\ ~st.in_single THEN [st EXCEPT !.in_double = ~st.in_double]
    ELSE IF st.in_single THEN st
    ELSE IF SubstitutionOp(c, next) # None
         THEN [st EXCEPT !.result = SubstitutionOp(c, next)]
    ELSE IF st.in_double THEN st
    ELSE [st EXCEPT !.result = ControlOp(c, next)]

\* Variant: the double-quote test comes before the substitution match.
ScanChar_double_quote_first(st, c, next) ==
    IF st.escaped THEN [st EXCEPT !.escaped = FALSE]
    ELSE IF c = "\\" /\ ~st.in_single THEN [st EXCEPT !.escaped = TRUE]
    ELSE IF c = "'" /\ ~st.in_double THEN [st EXCEPT !.in_single = ~st.in_single]
    ELSE IF c = "\"" /\ ~st.in_single THEN [st EXCEPT !.in_double = ~st.in_double]
    ELSE IF st.in_single \/ st.in_double THEN st
    ELSE IF SubstitutionOp(c, next) # None
         THEN [st EXCEPT !.result = SubstitutionOp(c, next)]
    ELSE [st EXCEPT !.result = ControlOp(c, next)]

\* Variant: a backslash arms the escape flag inside single quotes too.
ScanChar_backslash_in_single(st, c, next) ==
    IF st.escaped THEN [st EXCEPT !.escaped = FALSE]
    ELSE IF c = "\\" THEN [st EXCEPT !.escaped = TRUE]
    ELSE IF c = "'" /\ ~st.in_double THEN [st EXCEPT !.in_single = ~st.in_single]
    ELSE IF c = "\"" /\ ~st.in_single THEN [st EXCEPT !.in_double = ~st.in_double]
    ELSE IF st.in_single THEN st
    ELSE IF SubstitutionOp(c, next) # None
         THEN [st EXCEPT !.result = SubstitutionOp(c, next)]
    ELSE IF st.in_double THEN st
    ELSE [st EXCEPT !.result = ControlOp(c, next)]

\* One iteration of the `while let Some(c) = chars.next()` loop body:
\* st is the state before the character c, next is chars.peek().
ScanChar(st, c, next) ==
    IF st.escaped THEN [st EXCEPT !.escaped = FALSE]
    ELSE IF c = "\\" /\ ~st.in_single THEN [st EXCEPT !.escaped = TRUE]
    ELSE IF c = "'" /\ ~st.in_double THEN [st EXCEPT !.in_single = ~st.in_single]
    ELSE IF c = "\"" /\ ~st.in_single THEN [st EXCEPT !.in_double = ~st.in_double]
    ELSE IF st.in_single THEN st
    ELSE IF SubstitutionOp(c, next) # None
         THEN [st EXCEPT !.result = SubstitutionOp(c, next)]
    ELSE IF st.in_double THEN st
    ELSE [st EXCEPT !.result = ControlOp(c, next)]

\* The loop: consume characters from position i until one reports or the
\* input ends.  The value is the final state with the number of characters
\* consumed.
RECURSIVE ScanFrom(_, _, _)
ScanFrom(s, i, st) ==
    IF i > Len(s) \/ st.result # None
    THEN [in_single |-> st.in_single, in_double |-> st.in_double,
          escaped |-> st.escaped, result |-> st.result, consumed |-> i - 1]
    ELSE ScanFrom(s, i + 1, ScanChar(st, s[i], Peek(s, i)))

ScanRun(s) == ScanFrom(s, 1, ScanInit)

detect_forbidden_operator(s) == ScanRun(s).result

(***************************************************************************)
(* Tokenizer: shell_words::split, the POSIX word splitter that             *)
(* validate_and_split_command calls.  Its states are those of the          *)
(* splitter; `word` is the word under construction, `words` the finished   *)
(* ones.  A result is [ok |-> BOOLEAN, words |-> token sequence]; ok is    *)
(* FALSE for a ParseError (input ends inside a quoted span).               *)
(***************************************************************************)
IsSpace(c) == c \in {" ", "\t", "\n"}

RECURSIVE SplitFrom(_, _, _, _, _)
SplitFrom(s, i, state, word, words) ==
    IF i > Len(s) THEN
        \* end of input
        CASE state \in {"Delimiter", "Comment"} -> [ok |-> TRUE, words |-> words]
          [] state = "Unquoted" -> [ok |-> TRUE, words |-> Append(words, word)]
          [] state \in {"Backslash", "UnquotedBackslash"} ->
                [ok |-> TRUE, words |-> Append(words, Append(word, "\\"))]
          [] OTHER -> [ok |-> FALSE, words |-> <<>>]
    ELSE
        LET c == s[i] IN
        CASE state = "Delimiter" ->
                IF c = "'" THEN SplitFrom(s, i + 1, "SingleQuoted", word, words)
                ELSE IF c = "\"" THEN SplitFrom(s, i + 1, "DoubleQuoted", word, words)
                ELSE IF c = "\\" THEN SplitFrom(s, i + 1, "Backslash", word, words)
                ELSE IF IsSpace(c) THEN SplitFrom(s, i + 1, "Delimiter", word, words)
                ELSE IF c = "#" THEN SplitFrom(s, i + 1, "Comment", word, words)
                ELSE SplitFrom(s, i + 1, "Unquoted", Append(word, c), words)
          [] state = "Backslash" ->
                IF c = "\n" THEN SplitFrom(s, i + 1, "Delimiter", word, words)
                ELSE SplitFrom(s, i + 1, "Unquoted", Append(word, c), words)
          [] state = "Unquoted" ->
                IF c = "'" THEN SplitFrom(s, i + 1, "SingleQuoted", word, words)
                ELSE IF c = "\"" THEN SplitFrom(s, i + 1, "DoubleQuoted", word, words)
                ELSE IF c = "\\" THEN SplitFrom(s, i + 1, "UnquotedBackslash", word, words)
                ELSE IF IsSpace(c)
                     THEN SplitFrom(s, i + 1, "Delimiter", <<>>, Append(words, word))
                ELSE SplitFrom(s, i + 1, "Unquoted", Append(word, c), words)
          [] state = "UnquotedBackslash" ->
                IF c = "\n" THEN SplitFrom(s, i + 1, "Unquoted", word, words)
                ELSE SplitFrom(s, i + 1, "Unquoted", Append(word, c), words)
          [] state = "SingleQuoted" ->
                IF c = "'" THEN SplitFrom(s, i + 1, "Unquoted", word, words)
                ELSE SplitFrom(s, i + 1, "SingleQuoted", Append(word, c), words)
          [] state = "DoubleQuoted" ->
                IF c = "\"" THEN SplitFrom(s, i + 1, "Unquoted", word, words)
                ELSE IF c = "\\"
                     THEN SplitFrom(s, i + 1, "DoubleQuotedBackslash", word, words)
                ELSE SplitFrom(s, i + 1, "DoubleQuoted", Append(word, c), words)
          [] state = "DoubleQuotedBackslash" ->
                IF c = "\n" THEN SplitFrom(s, i + 1, "DoubleQuoted", word, words)
                ELSE IF c \in {"$", Backtick, "\"", "\\"}
                     THEN SplitFrom(s, i + 1, "DoubleQuoted", Append(word, c), words)
                ELSE SplitFrom(s, i + 1, "DoubleQuoted",
                               Append(Append(word, "\\"), c), words)
          [] state = "Comment" ->
                IF c = "\n" THEN SplitFrom(s, i + 1, "Delimiter", word, words)
                ELSE SplitFrom(s, i + 1, "Comment", word, words)

Split(s) == SplitFrom(s, 1, "Delimiter", <<>>, <<>>)

(***************************************************************************)
(* ValidationBoundary: validate_and_split_command.                         *)
(* A verdict is [kind, tokens, op, scanned]: kind is "Accepted" or the     *)
(* rejection the error message stands for; op is the operator a            *)
(* DisallowedOperator rejection names; scanned tells whether the call      *)
(* reached detect_forbidden_operator.                                      *)
(***************************************************************************)
Rejected(kind, scanned) ==
    [kind |-> kind, tokens |-> <<>>, op |-> None, scanned |-> scanned]

\* ToolWhitelistGuard: allowed_tools.iter().any(|t| t == first)
ToolAllowed(first, allowed) == \E t \in allowed : t = first

\* tokens.join(" ")
RECURSIVE Join(_)
Join(tokens) ==
    IF tokens = <<>> THEN <<>>
    ELSE IF Len(tokens) = 1 THEN tokens[1]
    ELSE tokens[1] \o <<" ">> \o Join(Tail(tokens))

Accepted(tokens, scanned) ==
    [kind |-> "Accepted", tokens |-> tokens, op |-> None, scanned |-> scanned]

DisallowedOperator(op) ==
    [kind |-> "DisallowedOperator", tokens |-> <<>>, op |-> op, scanned |-> TRUE]

\* Variant: the whitelist is skipped in unsafe mode.
validate_unsafe_skips_whitelist(raw, allowed, unsafe_mode) ==
    LET sp == Split(raw) IN
    IF ~sp.ok THEN Rejected("MalformedCommand", FALSE)
    ELSE IF sp.words = <<>> THEN Rejected("EmptyCommand", FALSE)
    ELSE IF unsafe_mode THEN Accepted(sp.words, FALSE)
    ELSE IF ~ToolAllowed(sp.words[1], allowed) THEN Rejected("DisallowedTool", FALSE)
    ELSE LET op == detect_forbidden_operator(raw) IN
         IF op # None THEN DisallowedOperator(op) ELSE Accepted(sp.words, TRUE)

\* Variant: the scanner reads the decoded tokens instead of the raw string.
validate_scans_tokens(raw, allowed, unsafe_mode) ==
    LET sp == Split(raw) IN
    IF ~sp.ok THEN Rejected("MalformedCommand", FALSE)
    ELSE IF sp.words = <<>> THEN Rejected("EmptyCommand", FALSE)
    ELSE IF ~ToolAllowed(sp.words[1], allowed) THEN Rejected("DisallowedTool", FALSE)
    ELSE IF ~unsafe_mode THEN
        LET op == detect_forbidden_operator(Join(sp.words)) IN
        IF op # None THEN DisallowedOperator(op) ELSE Accepted(sp.words, TRUE)
    ELSE Accepted(sp.words, FALSE)

\* Variant: the operator scan runs before the whitelist check.
validate_scan_first(raw, allowed, unsafe_mode) ==
    LET sp == Split(raw)
        op == detect_forbidden_operator(raw) IN
    IF ~sp.ok THEN Rejected("MalformedCommand", FALSE)
    ELSE IF sp.words = <<>> THEN Rejected("EmptyCommand", FALSE)
    ELSE IF ~unsafe_mode /\ op # None THEN DisallowedOperator(op)
    ELSE IF ~ToolAllowed(sp.words[1], allowed)
         THEN Rejected("DisallowedTool", ~unsafe_mode)
    ELSE Accepted(sp.words, ~unsafe_mode)

\* Variant: the unsafe flag is ignored, operators are rejected in both modes.
validate_ignores_unsafe(raw, allowed, unsafe_mode) ==
    LET sp == Split(raw) IN
    IF ~sp.ok THEN Rejected("MalformedCommand", FALSE)
    ELSE IF sp.words = <<>> THEN Rejected("EmptyCommand", FALSE)
    ELSE IF ~ToolAllowed(sp.words[1], allowed) THEN Rejected("DisallowedTool", FALSE)
    ELSE LET op == detect_forbidden_operator(raw) IN
         IF op # None THEN DisallowedOperator(op) ELSE Accepted(sp.words, TRUE)

\* Variant: the scanner runs in both modes and its finding is dropped in
\* unsafe mode.
validate_scans_then_ignores(raw, allowed, unsafe_mode) ==
    LET sp == Split(raw) IN
    IF ~sp.ok THEN Rejected("MalformedCommand", FALSE)
    ELSE IF sp.words = <<>> THEN Rejected("EmptyCommand", FALSE)
    ELSE IF ~ToolAllowed(sp.words[1], allowed) THEN Rejected("DisallowedTool", FALSE)
    ELSE LET op == detect_forbidden_operator(raw) IN
         IF op # None /\ ~unsafe_mode THEN DisallowedOperator(op)
         ELSE Accepted(sp.words, TRUE)

\* Variant: a first token that is an allowed name behind a leading "/" is
\* replaced by that name.
validate_coerces_first_token(raw, allowed, unsafe_mode) ==
    LET sp == Split(raw) IN
    IF ~sp.ok THEN Rejected("MalformedCommand", FALSE)
    ELSE IF sp.words = <<>> THEN Rejected("EmptyCommand", FALSE)
    ELSE IF /\ ~ToolAllowed(sp.words[1], allowed)
            /\ sp.words[1] # <<>>
            /\ sp.words[1][1] = "/"
            /\ ToolAllowed(Tail(sp.words[1]), allowed)
         THEN Accepted(<<Tail(sp.words[1])>> \o Tail(sp.words), FALSE)
    ELSE IF ~ToolAllowed(sp.words[1], allowed) THEN Rejected("DisallowedTool", FALSE)
    ELSE IF ~unsafe_mode THEN
        LET op == detect_forbidden_operator(raw) IN
        IF op # None THEN DisallowedOperator(op) ELSE Accepted(sp.words, TRUE)
    ELSE Accepted(sp.words, FALSE)

\* Variant: the accepted tokens are the arguments, without the program.
validate_drops_program(raw, allowed, unsafe_mode) ==
    LET sp == Split(raw) IN
    IF ~sp.ok THEN Rejected("MalformedCommand", FALSE)
    ELSE IF sp.words = <<>> THEN Rejected("EmptyCommand", FALSE)
    ELSE IF ~ToolAllowed(sp.words[1], allowed) THEN Rejected("DisallowedTool", FALSE)
    ELSE IF ~unsafe_mode THEN
        LET op == detect_forbidden_operator(raw) IN
        IF op # None THEN DisallowedOperator(op) ELSE Accepted(Tail(sp.words), TRUE)
    ELSE Accepted(Tail(sp.words), FALSE)

\* Variant: a tokenizer failure is taken for an empty token list.
validate_parse_error_as_empty(raw, allowed, unsafe_mode) ==
    LET sp == Split(raw) IN
    IF ~sp.ok THEN Rejected("EmptyCommand", FALSE)
    ELSE IF sp.words = <<>> THEN Rejected("EmptyCommand", FALSE)
    ELSE IF ~ToolAllowed(sp.words[1], allowed) THEN Rejected("DisallowedTool", FALSE)
    ELSE IF ~unsafe_mode THEN
        LET op == detect_forbidden_operator(raw) IN
        IF op # None THEN DisallowedOperator(op) ELSE Accepted(sp.words, TRUE)
    ELSE Accepted(sp.words, FALSE)

\* Variant: an empty token list is reported as a disallowed (empty) tool.
validate_empty_as_disallowed(raw, allowed, unsafe_mode) ==
    LET sp == Split(raw) IN
    IF ~sp.ok THEN Rejected("MalformedCommand", FALSE)
    ELSE IF sp.words = <<>> THEN Rejected("DisallowedTool", FALSE)
    ELSE IF ~ToolAllowed(sp.words[1], allowed) THEN Rejected("DisallowedTool", FALSE)
    ELSE IF ~unsafe_mode THEN
        LET op == detect_forbidden_operator(raw) IN
        IF op # None THEN DisallowedOperator(op) ELSE Accepted(sp.words, TRUE)
    ELSE Accepted(sp.words, FALSE)

validate_and_split_command(raw, allowed, unsafe_mode) ==
    LET sp == Split(raw) IN
    IF ~sp.ok THEN Rejected("MalformedCommand", FALSE)
    ELSE IF sp.words = <<>> THEN Rejected("EmptyCommand", FALSE)
    ELSE IF ~ToolAllowed(sp.words[1], allowed) THEN Rejected("DisallowedTool", FALSE)
    ELSE IF ~unsafe_mode THEN
        LET op == detect_forbidden_operator(raw) IN
        IF op # None THEN DisallowedOperator(op) ELSE Accepted(sp.words, TRUE)
    ELSE Accepted(sp.words, FALSE)

(***************************************************************************)
(* ExecutionBoundary: expand_glob_if_needed and                            *)
(* ShellCommandExecutor::execute.                                          *)
(*                                                                         *)
(* The working directory is a flat set of plain files `fs`; glob is the    *)
(* glob crate's: `*` any run of characters, `?` any one character, `[..]`  *)
(* a character class, matches listed in alphabetical order.                *)
(***************************************************************************)
CharCode(c) ==
    CASE c = " " -> 32 [] c = "\"" -> 34 [] c = "#" -> 35 [] c = "$" -> 36
      [] c = "&" -> 38 [] c = "'" -> 39 [] c = "(" -> 40 [] c = "*" -> 42
      [] c = "-" -> 45 [] c = "/" -> 47 [] c = ";" -> 59 [] c = "<" -> 60
      [] c = ">" -> 62 [] c = "?" -> 63 [] c = "C" -> 67 [] c = "[" -> 91
      [] c = "\\" -> 92 [] c = "]" -> 93 [] c = Backtick -> 96 [] c = "a" -> 97
      [] c = "c" -> 99 [] c = "d" -> 100 [] c = "h" -> 104 [] c = "j" -> 106
      [] c = "m" -> 109 [] c = "s" -> 115 [] c = "{" -> 123 [] c = "|" -> 124
      [] OTHER -> 0

\* a < b in the byte order of path names
RECURSIVE NameLess(_, _)
NameLess(a, b) ==
    IF a = <<>> THEN b # <<>>
    ELSE IF b = <<>> THEN FALSE
    ELSE IF Head(a) = Head(b) THEN NameLess(Tail(a), Tail(b))
    ELSE CharCode(Head(a)) < CharCode(Head(b))

RECURSIVE SortedNames(_)
SortedNames(S) ==
    IF S = {} THEN <<>>
    ELSE LET m == CHOOSE x \in S : \A y \in S \ {x} : NameLess(x, y)
         IN <<m>> \o SortedNames(S \ {m})

Contains(s, c) == \E i \in 1..Len(s) : s[i] = c

\* Index of the `]` closing the class opened at position i, 0 when there
\* is none (glob::Pattern::new: the class holds at least one character).
ClassEnd(p, i) ==
    LET from == IF i + 1 <= Len(p) /\ p[i + 1] = "!" THEN i + 3 ELSE i + 2
        ends == {k \in from..Len(p) : p[k] = "]"}
    IN IF ends = {} THEN 0
       ELSE CHOOSE k \in ends : \A m \in ends : k <= m

\* glob::Pattern::new succeeds: every class is closed, and a `**` is a whole
\* path component.
RECURSIVE GlobValidFrom(_, _)
GlobValidFrom(p, i) ==
    IF i > Len(p) THEN TRUE
    ELSE IF p[i] = "[" THEN
        ClassEnd(p, i) # 0 /\ GlobValidFrom(p, ClassEnd(p, i) + 1)
    ELSE IF p[i] = "*" /\ i < Len(p) /\ p[i + 1] = "*" THEN
        /\ (i = 1 \/ p[i - 1] = "/")
        /\ (i + 2 > Len(p) \/ p[i + 2] = "/")
        /\ GlobValidFrom(p, i + 2)
    ELSE GlobValidFrom(p, i + 1)

GlobValid(p) == GlobValidFrom(p, 1)

\* Pattern p from position i matches name n from position k.
RECURSIVE GlobMatch(_, _, _, _)
GlobMatch(p, i, n, k) ==
    IF i > Len(p) THEN k > Len(n)
    ELSE IF p[i] = "*" THEN
        GlobMatch(p, i + 1, n, k) \/ (k <= Len(n) /\ GlobMatch(p, i, n, k + 1))
    ELSE IF p[i] = "?" THEN k <= Len(n) /\ GlobMatch(p, i + 1, n, k + 1)
    ELSE IF p[i] = "[" THEN
        LET e == ClassEnd(p, i)
            neg == p[i + 1] = "!"
            members == {p[m] : m \in (IF neg THEN i + 2 ELSE i + 1)..(e - 1)}
        IN /\ k <= Len(n)
           /\ (n[k] \in members) # neg
           /\ GlobMatch(p, e + 1, n, k + 1)
    ELSE k <= Len(n) /\ n[k] = p[i] /\ GlobMatch(p, i + 1, n, k + 1)

\* glob(arg) over the flat directory: the matching names, in order.  A
\* pattern with a path separator or a recursive `**` names no plain file of
\* the directory.
GlobPaths(arg, fs) ==
    IF Contains(arg, "/") \/ arg = <<"*", "*">> THEN <<>>
    ELSE SortedNames({n \in fs : GlobMatch(arg, 1, n, 1)})

\* Variant: a pattern without a match expands to nothing.
expand_glob_nullglob(arg, fs) ==
    IF ~Contains(arg, "*") /\ ~Contains(arg, "?") /\ ~Contains(arg, "[")
    THEN <<arg>>
    ELSE IF ~GlobValid(arg) THEN <<arg>>
    ELSE GlobPaths(arg, fs)

expand_glob_if_needed(arg, fs) ==
    IF ~Contains(arg, "*") /\ ~Contains(arg, "?") /\ ~Contains(arg, "[")
    THEN <<arg>>
    ELSE IF ~GlobValid(arg) THEN <<arg>>
    ELSE LET expanded == GlobPaths(arg, fs) IN
         IF expanded = <<>> THEN <<arg>> ELSE expanded

\* expanded_args: the expansions of tokens[1..], concatenated in order.
RECURSIVE ExpandedArgs(_, _, _)
ExpandedArgs(tokens, k, fs) ==
    IF k > Len(tokens) THEN <<>>
    ELSE expand_glob_if_needed(tokens[k], fs) \o ExpandedArgs(tokens, k + 1, fs)

Platforms == {"posix", "windows"}
ShellProgram(platform) ==
    IF platform = "windows" THEN <<"c", "m", "d">> ELSE <<"s", "h">>
ShellFlag(platform) ==
    IF platform = "windows" THEN <<"/", "C">> ELSE <<"-", "c">>

HasGlobChar(arg) == Contains(arg, "*") \/ Contains(arg, "?") \/ Contains(arg, "[")

\* Variant: in safe mode a command with a glob pattern among its arguments
\* is handed to the shell for the expansion.
execute_command_shell_expands_globs(raw, tokens, unsafe_mode, fs, platform) ==
    IF unsafe_mode \/ \E k \in 2..Len(tokens) : HasGlobChar(tokens[k])
    THEN [program |-> ShellProgram(platform),
          args |-> <<ShellFlag(platform), raw>>]
    ELSE [program |-> tokens[1], args |-> Tail(tokens)]

\* Variant: in safe mode a command whose raw text holds a quote gets its
\* arguments unexpanded.
execute_command_literal_when_quoted(raw, tokens, unsafe_mode, fs, platform) ==
    IF unsafe_mode
    THEN [program |-> ShellProgram(platform),
          args |-> <<ShellFlag(platform), raw>>]
    ELSE IF Contains(raw, "'") \/ Contains(raw, "\"") \/ Contains(raw, "\\")
    THEN [program |-> tokens[1], args |-> Tail(tokens)]
    ELSE [program |-> tokens[1],
          args |-> IF Len(tokens) > 1 THEN ExpandedArgs(tokens, 2, fs) ELSE <<>>]

\* The std::process::Command that execute builds: program and argv.
execute_command(raw, tokens, unsafe_mode, fs, platform) ==
    IF unsafe_mode
    THEN [program |-> ShellProgram(platform),
          args |-> <<ShellFlag(platform), raw>>]
    ELSE [program |-> tokens[1],
          args |-> IF Len(tokens) > 1 THEN ExpandedArgs(tokens, 2, fs) ELSE <<>>]

\* What the OS can answer to cmd.status(): the spawn fails, or the child ends
\* with an exit code, or the child is ended by a signal (no exit code).
SpawnOutcomes ==
    {[kind |-> "spawn_error", code |-> 0], [kind |-> "signal", code |-> 0]}
        \cup {[kind |-> "exit", code |-> n] : n \in {0, 1, 2}}

\* Variant: a child without an exit code counts as success.
ExitStatus_default_zero(out) == IF out.kind = "exit" THEN out.code ELSE 0

\* Ok(status.code().unwrap_or(1))
ExitStatus(out) == IF out.kind = "exit" THEN out.code ELSE 1

(***************************************************************************)
(* History (history.rs).  A log file is [exists, lines]; a line is         *)
(* [entry, size], where entry is the HistoryEntry the line parses to, or   *)
(* None for a blank or malformed line, and size is its length in bytes.    *)
(***************************************************************************)
HISTORY_MAX_BYTES == 1000000

NoFile == [exists |-> FALSE, lines |-> <<>>]

FileOf(lines) == [exists |-> TRUE, lines |-> lines]

RECURSIVE SumSizes(_)
SumSizes(lines) == IF lines = <<>> THEN 0 ELSE lines[1].size + SumSizes(Tail(lines))

\* fs::metadata(path).len()
FileSize(f) == SumSizes(f.lines)

RECURSIVE LastGood(_, _)
LastGood(lines, k) ==
    IF k = 0 THEN None
    ELSE IF lines[k].entry # None THEN lines[k].entry
    ELSE LastGood(lines, k - 1)

\* read_latest_from_file: the last line that parses, None when the file
\* does not exist or holds no such line.
read_latest_from_file(f) ==
    IF ~f.exists THEN None ELSE LastGood(f.lines, Len(f.lines))

\* Variant: the backup is never read.
read_latest_entry_main_only(log, backup) == read_latest_from_file(log)

read_latest_entry(log, backup) ==
    IF read_latest_from_file(log) # None THEN read_latest_from_file(log)
    ELSE read_latest_from_file(backup)

\* What can happen to one write_entry call.
WriteOutcomes == {"ok", "open_error", "write_error", "remove_error", "rename_error"}

\* rotate_history_if_needed applies: the log exists and is over the limit.
RotationDue(log) == log.exists /\ FileSize(log) > HISTORY_MAX_BYTES

\* rotate_history_if_needed: the files afterwards and whether it returned
\* Ok.  `fault` is the file operation that fails, if any.
rotate_history_if_needed(log, backup, fault) ==
    IF ~RotationDue(log) THEN [log |-> log, backup |-> backup, ok |-> TRUE]
    ELSE IF backup.exists /\ fault = "remove_error"
         THEN [log |-> log, backup |-> backup, ok |-> FALSE]
    ELSE IF fault = "rename_error"
         THEN [log |-> log, backup |-> NoFile, ok |-> FALSE]
    ELSE [log |-> NoFile, backup |-> log, ok |-> TRUE]

\* write_entry: the files afterwards and whether it returned Ok.
write_entry(log, backup, line, fault) ==
    IF fault = "open_error" THEN [log |-> log, backup |-> backup, ok |-> FALSE]
    ELSE IF fault = "write_error"
         THEN [log |-> FileOf(log.lines), backup |-> backup, ok |-> FALSE]
    ELSE rotate_history_if_needed(FileOf(Append(log.lines, line)), backup, fault)

(***************************************************************************)
(* Specification of the scanner as a function applied to bounded inputs.   *)
(***************************************************************************)
NoCli == [op |-> "run", unsafe_mode |-> FALSE, confirm |-> FALSE,
          explain |-> FALSE, analyze |-> FALSE]
NoCalls == [generate |-> 0, respond |-> 0, confirm |-> 0, scanner |-> 0,
            validated |-> <<>>, answers |-> <<>>]
NoSummary == [exit_code |-> 0, generated_command |-> None, unsafe_mode |-> FALSE,
              confirm |-> FALSE, explain |-> FALSE, notes |-> None]
NoVerdict == [kind |-> None]
NoHistory == [log |-> NoFile, backup |-> NoFile, writes |-> <<>>, reads |-> <<>>]
NoImport == [phase |-> "none"]
NoScan == [result |-> None, consumed |-> 0, in_single |-> FALSE,
           in_double |-> FALSE, escaped |-> FALSE]

InitScan ==
    /\ pc = "scan"
    /\ cmd_line \in StringsUpTo(ScanAlphabet, MaxScanLen)
    /\ cli = NoCli
    /\ allowed_tools = {}
    /\ verdict = NoVerdict
    /\ scan_out = NoScan
    /\ summary = NoSummary
    /\ outcome = "none"
    /\ calls = NoCalls
    /\ exec_calls = <<>>
    /\ spawned = <<>>
    /\ files = {}
    /\ glob_out = None
    /\ wait_status = <<>>
    /\ history = NoHistory
    /\ imp = NoImport

\* A call of detect_forbidden_operator(cmd_line).
Scan ==
    /\ pc = "scan"
    /\ scan_out' = ScanRun(cmd_line)
    /\ pc' = "scanned"
    /\ UNCHANGED <<cli, allowed_tools, cmd_line, verdict, summary, outcome,
                   calls, exec_calls, spawned, files,
                   glob_out, wait_status, history, imp>>

NextScan == Scan

SpecScan == InitScan /\ [][NextScan]_vars

(***************************************************************************)
(* The shell's reading of a raw string, in which the claims about the      *)
(* scanner are stated: the quoting context in which character i is read.   *)
(* q is "none", "single" or "double"; esc tells that character i follows   *)
(* a backslash that escapes it.  Inside single quotes nothing but the      *)
(* closing quote is special.                                               *)
(***************************************************************************)
RECURSIVE ShellContext(_, _)
ShellContext(s, i) ==
    IF i = 1 THEN [q |-> "none", esc |-> FALSE]
    ELSE LET before == ShellContext(s, i - 1)
             c == s[i - 1]
         IN IF before.esc THEN [before EXCEPT !.esc = FALSE]
            ELSE IF before.q = "single"
                 THEN (IF c = "'" THEN [before EXCEPT !.q = "none"] ELSE before)
            ELSE IF c = "\\" THEN [before EXCEPT !.esc = TRUE]
            ELSE IF before.q = "double"
                 THEN (IF c = "\"" THEN [before EXCEPT !.q = "none"] ELSE before)
            ELSE IF c = "'" THEN [before EXCEPT !.q = "single"]
            ELSE IF c = "\"" THEN [before EXCEPT !.q = "double"]
            ELSE before

\* Position i of s starts a `$(` or `${`, or holds a backtick.
SubstitutionAt(s, i) ==
    \/ s[i] = Backtick
    \/ s[i] = "$" /\ i < Len(s) /\ s[i + 1] \in {"(", "{"}

\* Position i of s holds one of `|`, `&`, `;`, `>`, `<`.
ControlAt(s, i) == s[i] \in {"|", "&", ";", ">", "<"}

OperatorAt(s, i) == SubstitutionAt(s, i) \/ ControlAt(s, i)

\* The text the scanner has for the substitution at position i.
SubstitutionText(s, i) ==
    IF s[i] = Backtick THEN BacktickOp
    ELSE IF s[i + 1] = "(" THEN "$(...)" ELSE "${...}"

\* C3: a string with an occurrence of `|`, `&`, `;`, `>`, `<`, a backtick,
\* `$(` or `${` that is unescaped and outside every quote makes the scanner
\* return Some, whatever surrounds the operator (no whitespace is needed).
C3_UnquotedOperatorReported ==
    pc = "scanned" =>
        ((\E i \in 1..Len(cmd_line) :
              /\ OperatorAt(cmd_line, i)
              /\ ShellContext(cmd_line, i) = [q |-> "none", esc |-> FALSE])
         => scan_out.result # None)

\* C3 witness: "a|a" (the shape of "ls|wc") is reported as "|".
C3_Witness ==
    /\ pc = "scanned"
    /\ cmd_line = <<"a", "|", "a">>
    /\ scan_out.result = "|"

\* C4: an unescaped `$(`, `${` or backtick inside double quotes makes the
\* scanner return Some: the scan stops no later than that position, and when
\* it stops there it reports '$(...)', '${...}' or the backtick form.
C4_SubstitutionInDoubleQuotes ==
    pc = "scanned" =>
        \A i \in 1..Len(cmd_line) :
            (/\ SubstitutionAt(cmd_line, i)
             /\ ShellContext(cmd_line, i) = [q |-> "double", esc |-> FALSE])
            => /\ scan_out.result # None
               /\ scan_out.consumed <= i
               /\ scan_out.consumed = i =>
                     /\ scan_out.result = SubstitutionText(cmd_line, i)
                     /\ scan_out.in_double

\* C4 witness: in "\"$(" the scanner stops at the `$` inside the double
\* quotes with '$(...)'.
C4_Witness ==
    /\ pc = "scanned"
    /\ cmd_line = <<"a", "\"", "$", "(">>
    /\ scan_out.result = "$(...)"
    /\ scan_out.in_double
    /\ scan_out.consumed = 3

\* The single-quoted span opened by the first character of s ends at its
\* last character, with no single quote between them.
OneSingleQuotedSpan(s) ==
    /\ Len(s) >= 2
    /\ s[1] = "'"
    /\ s[Len(s)] = "'"
    /\ \A i \in 2..(Len(s) - 1) : s[i] # "'"

\* C10: when every occurrence of an operator character lies inside a
\* single-quoted span, the scanner returns None; and inside single quotes
\* neither a backslash nor a double quote has any effect, so a span ends at
\* the next single quote: after a string that is one such span the scanner
\* is outside all quotes with no escape pending.
C10_SingleQuotedInert ==
    pc = "scanned" =>
        /\ (\A i \in 1..Len(cmd_line) :
                OperatorAt(cmd_line, i) => ShellContext(cmd_line, i).q = "single")
           => scan_out.result = None
        /\ OneSingleQuotedSpan(cmd_line) =>
              /\ scan_out.result = None
              /\ scan_out.consumed = Len(cmd_line)
              /\ ~scan_out.in_single /\ ~scan_out.in_double /\ ~scan_out.escaped

\* C10 witness: "'|\\'" is one single-quoted span holding an operator and a
\* backslash; the scanner reads all of it and reports nothing.
C10_Witness ==
    /\ pc = "scanned"
    /\ cmd_line = <<"'", "|", "\\", "'">>
    /\ scan_out.result = None
    /\ scan_out.consumed = 4
    /\ ~scan_out.in_single
    /\ ~scan_out.escaped

\* A forbidden construct starts at position i: an unescaped operator
\* outside every quote, or an unescaped substitution inside double quotes.
ForbiddenAt(s, i) ==
    LET ctx == ShellContext(s, i) IN
    /\ ~ctx.esc
    /\ \/ ctx.q = "none" /\ OperatorAt(s, i)
       \/ ctx.q = "double" /\ SubstitutionAt(s, i)

\* C11: outside single quotes the character right after an unescaped
\* backslash is inert: an escaped operator is never the reported one, a
\* string all of whose operators are escaped yields None, an escaped quote
\* leaves the quote state as the shell reads it, and the escape covers one
\* character only: a forbidden construct two places after the backslash is
\* still found.
C11_EscapedCharInert ==
    pc = "scanned" =>
        /\ \A i \in 1..Len(cmd_line) :
               (OperatorAt(cmd_line, i) /\ ShellContext(cmd_line, i).esc)
               => (scan_out.result # None => scan_out.consumed # i)
        /\ (\A i \in 1..Len(cmd_line) :
                OperatorAt(cmd_line, i) => ShellContext(cmd_line, i).esc)
           => scan_out.result = None
        /\ (/\ scan_out.result = None
            /\ \E i \in 1..Len(cmd_line) :
                  cmd_line[i] \in {"'", "\""} /\ ShellContext(cmd_line, i).esc)
           => LET end == ShellContext(cmd_line, Len(cmd_line) + 1) IN
              /\ scan_out.in_single = (end.q = "single")
              /\ scan_out.in_double = (end.q = "double")
              /\ scan_out.escaped = end.esc
        /\ \A i \in 1..Len(cmd_line) :
               (/\ cmd_line[i] = "\\"
                /\ ~ShellContext(cmd_line, i).esc
                /\ ShellContext(cmd_line, i).q # "single"
                /\ i + 2 <= Len(cmd_line)
                /\ ForbiddenAt(cmd_line, i + 2))
               => /\ scan_out.result # None
                  /\ scan_out.consumed <= i + 2

\* C11 witness: in "\\||" the first pipe is escaped and the second one is
\* reported.
C11_Witness ==
    /\ pc = "scanned"
    /\ cmd_line = <<"\\", "|", "|">>
    /\ scan_out.result = "|"
    /\ scan_out.consumed = 3

\* The fifteen operator strings.
ForbiddenOperators ==
    {"|", "||", "|&", "&", "&&", ";", ">", ">>", ">(", "<", "<<", "<(",
     BacktickOp, "$(...)", "${...}"}

\* C12: a Some result of the scanner is one of the fifteen operator
\* strings, and each of the fifteen is the result for at least one input
\* (of at most two characters).
C12_FifteenOperators ==
    /\ pc = "scanned" => scan_out.result \in ForbiddenOperators \cup {None}
    /\ (pc = "scan" /\ cmd_line = <<>>) =>
           \A op \in ForbiddenOperators :
               \E s \in StringsUpTo(ScanAlphabet, 2) :
                   detect_forbidden_operator(s) = op

\* C12 witness: "|&" is reported as "|&".
C12_Witness ==
    /\ pc = "scanned"
    /\ cmd_line = <<"|", "&">>
    /\ scan_out.result = "|&"

\* The two-character operators, by their two characters.
TwoCharOperators ==
    (<<"|", "|">> :> "||") @@ (<<"|", "&">> :> "|&") @@ (<<"&", "&">> :> "&&")
    @@ (<<">", ">">> :> ">>") @@ (<<">", "(">> :> ">(")
    @@ (<<"<", "<">> :> "<<") @@ (<<"<", "(">> :> "<(")

\* The longest operator that starts at position i.
LongestForm(s, i) ==
    IF SubstitutionAt(s, i) THEN SubstitutionText(s, i)
    ELSE IF i < Len(s) /\ <<s[i], s[i + 1]>> \in DOMAIN TwoCharOperators
         THEN TwoCharOperators[<<s[i], s[i + 1]>>]
    ELSE s[i]

\* C13: when the string holds a forbidden construct, the scanner stops at
\* the leftmost one and reports it in its longest form.
C13_LeftmostLongest ==
    pc = "scanned" =>
        \A i \in 1..Len(cmd_line) :
            (/\ ForbiddenAt(cmd_line, i)
             /\ \A k \in 1..(i - 1) : ~ForbiddenAt(cmd_line, k))
            => /\ scan_out.consumed = i
               /\ scan_out.result = LongestForm(cmd_line, i)

\* C13 witness: in "a>>|" the scanner stops at position 2 and reports ">>",
\* neither ">" nor the later "|".
C13_Witness ==
    /\ pc = "scanned"
    /\ cmd_line = <<"a", ">", ">", "|">>
    /\ scan_out.result = ">>"
    /\ scan_out.consumed = 2

\* C27: inside double quotes `|`, `&`, `;`, `>`, `<` are never reported, and
\* a string whose only operators are such characters yields None; a quote
\* of the other kind inside a quoted span opens nothing, so the quote flags
\* at the end are those of the shell's reading; a control operator right
\* after the closing double quote is found.
C27_DoubleQuotedInert ==
    pc = "scanned" =>
        /\ \A i \in 1..Len(cmd_line) :
               (ControlAt(cmd_line, i) /\ ShellContext(cmd_line, i).q = "double")
               => (scan_out.result # None => scan_out.consumed # i)
        /\ (\A i \in 1..Len(cmd_line) :
                OperatorAt(cmd_line, i) =>
                    (ControlAt(cmd_line, i) /\ ShellContext(cmd_line, i).q = "double"))
           => scan_out.result = None
        /\ (/\ scan_out.result = None
            /\ \E i \in 1..Len(cmd_line) :
                  \/ cmd_line[i] = "'" /\ ShellContext(cmd_line, i).q = "double"
                  \/ cmd_line[i] = "\"" /\ ShellContext(cmd_line, i).q = "single")
           => LET end == ShellContext(cmd_line, Len(cmd_line) + 1) IN
              /\ scan_out.in_single = (end.q = "single")
              /\ scan_out.in_double = (end.q = "double")
        /\ \A i \in 1..(Len(cmd_line) - 1) :
               (/\ cmd_line[i] = "\""
                /\ ShellContext(cmd_line, i) = [q |-> "double", esc |-> FALSE]
                /\ ControlAt(cmd_line, i + 1))
               => /\ scan_out.result # None
                  /\ scan_out.consumed <= i + 1

\* C27 witness: in "\"|\"|" the quoted pipe is passed over and the pipe after
\* the closing quote is reported.
C27_Witness ==
    /\ pc = "scanned"
    /\ cmd_line = <<"\"", "|", "\"", "|">>
    /\ scan_out.result = "|"
    /\ scan_out.consumed = 4

(***************************************************************************)
(* Specification of the scanner's loop, one character per step.            *)
(***************************************************************************)
InitScanSteps ==
    /\ pc = "scanning"
    /\ cmd_line \in StringsUpTo(ScanAlphabet, MaxScanLen)
    /\ scan_out = NoScan
    /\ cli = NoCli
    /\ allowed_tools = {}
    /\ verdict = NoVerdict
    /\ summary = NoSummary
    /\ outcome = "none"
    /\ calls = NoCalls
    /\ exec_calls = <<>>
    /\ spawned = <<>>
    /\ files = {}
    /\ glob_out = None
    /\ wait_status = <<>>
    /\ history = NoHistory
    /\ imp = NoImport

\* One iteration of the loop: chars.next() yields the next character.
ScanStep ==
    /\ pc = "scanning"
    /\ scan_out.result = None
    /\ scan_out.consumed < Len(cmd_line)
    /\ LET i == scan_out.consumed + 1
           st == ScanChar([in_single |-> scan_out.in_single,
                           in_double |-> scan_out.in_double,
                           escaped |-> scan_out.escaped,
                           result |-> scan_out.result],
                          cmd_line[i], Peek(cmd_line, i))
       IN scan_out' = [in_single |-> st.in_single, in_double |-> st.in_double,
                       escaped |-> st.escaped, result |-> st.result,
                       consumed |-> i]
    /\ UNCHANGED <<pc, cli, allowed_tools, cmd_line, verdict, summary, outcome,
                   calls, exec_calls, spawned, files, glob_out, wait_status,
                   history, imp>>

\* The function returns: Some(op) from inside the loop, or None after it.
ScanReturn ==
    /\ pc = "scanning"
    /\ scan_out.result # None \/ scan_out.consumed = Len(cmd_line)
    /\ pc' = "scanned"
    /\ UNCHANGED <<cli, allowed_tools, cmd_line, verdict, scan_out, summary,
                   outcome, calls, exec_calls, spawned, files, glob_out,
                   wait_status, history, imp>>

NextScanSteps ==
    \/ ScanStep
    \/ ScanReturn

SpecScanSteps == InitScanSteps /\ [][NextScanSteps]_vars

\* After every character: not in both kinds of quotes, no escape pending
\* inside single quotes, no more characters consumed than there are; and
\* the function has returned only on a report or at the end of the input.
C29_State ==
    /\ ~(scan_out.in_single /\ scan_out.in_double)
    /\ ~(scan_out.escaped /\ scan_out.in_single)
    /\ scan_out.consumed <= Len(cmd_line)
    /\ pc = "scanned" =>
          /\ scan_out.result # None \/ scan_out.consumed = Len(cmd_line)
          /\ scan_out = ScanRun(cmd_line)

\* C29: C29_State holds after every character of every input, and every
\* step consumes either nothing or exactly the next character, nothing at
\* all once an operator is reported.
C29_ScannerInvariant ==
    /\ []C29_State
    /\ [][/\ scan_out'.consumed \in {scan_out.consumed, scan_out.consumed + 1}
          /\ scan_out.result # None => scan_out' = scan_out]_vars

\* C29 witness: after the three characters of "\"'\\" the scanner is inside
\* double quotes only, with an escape pending.
C29_Witness ==
    /\ pc = "scanning"
    /\ cmd_line = <<"\"", "'", "\\", "|">>
    /\ scan_out.consumed = 3
    /\ scan_out.in_double /\ ~scan_out.in_single /\ scan_out.escaped

(***************************************************************************)
(* Specification of validate_and_split_command as a function applied to    *)
(* bounded inputs: a raw command, an allowed-tool set and a mode.          *)
(***************************************************************************)
RawAlphabet == {"j", "/", " ", "'", "\"", "\\", "|", "$", "(", "#"}

Tool_j == <<"j">>
Tool_path_j == <<"/", "j">>
AllowedSets == {{Tool_j}, {Tool_j, Tool_path_j}}

InitValidate ==
    /\ pc = "validate"
    /\ cmd_line \in StringsUpTo(RawAlphabet, MaxRawLen)
    /\ cli \in {[NoCli EXCEPT !.unsafe_mode = u] : u \in BOOLEAN}
    /\ allowed_tools \in AllowedSets
    /\ verdict = NoVerdict
    /\ scan_out = NoScan
    /\ summary = NoSummary
    /\ outcome = "none"
    /\ calls = NoCalls
    /\ exec_calls = <<>>
    /\ spawned = <<>>
    /\ files = {}
    /\ glob_out = None
    /\ wait_status = <<>>
    /\ history = NoHistory
    /\ imp = NoImport

\* A call of validate_and_split_command(cmd_line, allowed_tools, unsafe_mode).
Validate ==
    /\ pc = "validate"
    /\ verdict' = validate_and_split_command(cmd_line, allowed_tools, cli.unsafe_mode)
    /\ calls' = [calls EXCEPT
                    !.scanner = IF verdict'.scanned THEN @ + 1 ELSE @,
                    !.validated = Append(@, [raw |-> cmd_line,
                                             allowed |-> allowed_tools,
                                             unsafe_mode |-> cli.unsafe_mode])]
    /\ pc' = "validated"
    /\ UNCHANGED <<cli, allowed_tools, cmd_line, scan_out, summary, outcome,
                   exec_calls, spawned, files,
                   glob_out, wait_status, history, imp>>

NextValidate == Validate

SpecValidate == InitValidate /\ [][NextValidate]_vars

\* The tokenizer's answer for the raw command of the state.
RawSplit == Split(cmd_line)
\* The raw command tokenizes to a non-empty sequence.
RawHasTokens == RawSplit.ok /\ RawSplit.words # <<>>
\* ... whose first token is in the allowed set.
RawToolAllowed == RawHasTokens /\ RawSplit.words[1] \in allowed_tools

\* C1: whenever validate accepts, in Safe or Unsafe mode, tokens[0] is an
\* element of the allowed set by exact string equality; a first token that
\* is the path form of an allowed name is not accepted for it.
C1_WhitelistExact ==
    pc = "validated" =>
        /\ verdict.kind = "Accepted" =>
              /\ verdict.tokens # <<>>
              /\ \E t \in allowed_tools : t = verdict.tokens[1]
        /\ (RawHasTokens /\ RawSplit.words[1] = Tool_path_j
              /\ allowed_tools = {Tool_j}) => verdict.kind = "DisallowedTool"

\* C1 witness: Unsafe mode rejects "/j |" under allowed = {j}.
C1_Witness ==
    /\ pc = "validated"
    /\ cli.unsafe_mode
    /\ allowed_tools = {Tool_j}
    /\ cmd_line = <<"/", "j", " ", "|">>
    /\ verdict.kind = "DisallowedTool"

\* C2: in Safe mode, for a raw command that tokenizes to a non-empty
\* sequence with an allowed first token, validate rejects with
\* DisallowedOperator(op) exactly when the scanner reports op on the raw
\* string, and accepts otherwise; no command accepted in Safe mode has a
\* construct the scanner reports.
C2_SafeRejectsIffScan ==
    (pc = "validated" /\ ~cli.unsafe_mode) =>
        /\ RawToolAllowed =>
              IF detect_forbidden_operator(cmd_line) # None
              THEN /\ verdict.kind = "DisallowedOperator"
                   /\ verdict.op = detect_forbidden_operator(cmd_line)
              ELSE /\ verdict.kind = "Accepted"
        /\ verdict.kind = "Accepted" => detect_forbidden_operator(cmd_line) = None
        /\ verdict.kind = "DisallowedOperator" => RawToolAllowed

\* C2 witness: Safe mode rejects "j|j" under allowed = {j} with the "|" the
\* scanner reports on the raw string.
C2_Witness ==
    /\ pc = "validated"
    /\ ~cli.unsafe_mode
    /\ RawToolAllowed
    /\ cmd_line = <<"j", " ", "|", "j">>
    /\ detect_forbidden_operator(cmd_line) = "|"
    /\ verdict.kind = "DisallowedOperator"
    /\ verdict.op = "|"

\* C7: a raw command that tokenizes to a non-empty sequence whose first
\* token is not allowed is rejected as DisallowedTool in both modes, also
\* when the scanner would report an operator in it.
C7_DisallowedToolFirst ==
    pc = "validated" =>
        ((RawHasTokens /\ ~RawToolAllowed) =>
            /\ verdict.kind = "DisallowedTool"
            /\ verdict.op = None)

\* C7 witness: Safe mode, "/j|j" under allowed = {j}: the scanner reports
\* "|" and the verdict is DisallowedTool.
C7_Witness ==
    /\ pc = "validated"
    /\ ~cli.unsafe_mode
    /\ allowed_tools = {Tool_j}
    /\ cmd_line = <<"/", "j", "|", "j">>
    /\ detect_forbidden_operator(cmd_line) = "|"
    /\ verdict.kind = "DisallowedTool"

\* C8: in Unsafe mode every raw command that tokenizes to a non-empty
\* sequence with an allowed first token is accepted, whatever operators it
\* holds; and what Safe mode accepts, Unsafe mode accepts with the same
\* tokens.
C8_UnsafeAcceptsOperators ==
    pc = "validated" =>
        /\ (cli.unsafe_mode /\ RawToolAllowed) =>
              /\ verdict.kind = "Accepted"
              /\ verdict.tokens = RawSplit.words
        /\ (~cli.unsafe_mode /\ verdict.kind = "Accepted") =>
              LET u == validate_and_split_command(cmd_line, allowed_tools, TRUE)
              IN u.kind = "Accepted" /\ u.tokens = verdict.tokens

\* C8 witness: "j | j" with allowed = {j} is accepted in Unsafe mode although
\* the scanner reports "|" (Safe mode rejects it, by C2).
C8_Witness ==
    /\ pc = "validated"
    /\ cli.unsafe_mode
    /\ cmd_line = <<"j", " ", "|", "j">>
    /\ detect_forbidden_operator(cmd_line) = "|"
    /\ verdict.kind = "Accepted"
    /\ verdict.tokens = <<<<"j">>, <<"|", "j">>>>

\* C9 as stated: during validate the scanner is consulted if and only if
\* the mode is Safe.
C9_ScannerIffSafe ==
    pc = "validated" => (calls.scanner = 1 <=> ~cli.unsafe_mode)

\* C9 amended: during validate the scanner is consulted (once) if and only
\* if the mode is Safe and the raw command tokenized to a non-empty sequence
\* whose first token is allowed; it is never consulted in Unsafe mode.
C9_ScannerIffSafeAndWhitelisted ==
    pc = "validated" =>
        /\ calls.scanner = (IF ~cli.unsafe_mode /\ RawToolAllowed THEN 1 ELSE 0)
        /\ verdict.scanned <=> (~cli.unsafe_mode /\ RawToolAllowed)
        /\ cli.unsafe_mode => calls.scanner = 0

\* C9 witness: the scanner was consulted for an allowed tool in Safe mode.
C9_Witness ==
    /\ pc = "validated"
    /\ ~cli.unsafe_mode
    /\ RawToolAllowed
    /\ calls.scanner = 1

\* C14: when validate accepts, the tokens it returns are the tokenizer's
\* output for the raw string, quotes removed and escapes decoded: "'j'"
\* yields [j] and "j \\|" yields [j, |]; no token is replaced.
C14_TokensAreTokenizerOutput ==
    (pc = "validated" /\ verdict.kind = "Accepted") =>
        /\ RawSplit.ok
        /\ verdict.tokens = RawSplit.words
        /\ cmd_line = <<"'", "j", "'">> => verdict.tokens = <<Tool_j>>
        /\ cmd_line = <<"j", " ", "\\", "|">> => verdict.tokens = <<Tool_j, <<"|">>>>

\* C14 witness: Safe mode accepts "j \\|" with the tokens [j, |].
C14_Witness ==
    /\ pc = "validated"
    /\ ~cli.unsafe_mode
    /\ cmd_line = <<"j", " ", "\\", "|">>
    /\ verdict.kind = "Accepted"
    /\ verdict.tokens = <<Tool_j, <<"|">>>>

GlobChars == {"*", "?", "["}

NoGlobChar(tokens) ==
    \A k \in 1..Len(tokens) : \A i \in 1..Len(tokens[k]) : tokens[k][i] \notin GlobChars

\* Validating the single-space join of the accepted tokens again, under the
\* same allowed set and mode, accepts with the same tokens.
RoundTrip ==
    LET again == validate_and_split_command(Join(verdict.tokens), allowed_tools,
                                            cli.unsafe_mode)
    IN /\ again.kind = "Accepted"
       /\ again.tokens = verdict.tokens

\* A token that reads back as itself: not empty, free of whitespace, quotes
\* and backslashes, and not starting with `#`.
PlainToken(t) ==
    /\ t # <<>>
    /\ t[1] # "#"
    /\ \A i \in 1..Len(t) : t[i] \notin {" ", "\t", "\n", "'", "\"", "\\"}

\* C15 as stated: when validate accepts tokens T none of which holds a glob
\* metacharacter, validating the single-space join of T again accepts with
\* tokens equal to T.
C15_RoundTrip ==
    (pc = "validated" /\ verdict.kind = "Accepted" /\ NoGlobChar(verdict.tokens))
    => RoundTrip

\* C15 amended: the round trip holds when, besides, every token of T is
\* plain and, in Safe mode, no token holds a forbidden operator.
C15_RoundTripOfPlainTokens ==
    (/\ pc = "validated"
     /\ verdict.kind = "Accepted"
     /\ NoGlobChar(verdict.tokens)
     /\ \A k \in 1..Len(verdict.tokens) :
           /\ PlainToken(verdict.tokens[k])
           /\ ~cli.unsafe_mode =>
                 \A i \in 1..Len(verdict.tokens[k]) : ~OperatorAt(verdict.tokens[k], i))
    => RoundTrip

\* C15 witness: Safe mode accepts "j \\/" with the plain tokens [j, /];
\* their join "j /" differs from the raw string and is accepted with the
\* same tokens.
C15_Witness ==
    /\ pc = "validated"
    /\ ~cli.unsafe_mode
    /\ cmd_line = <<"j", " ", "\\", "/">>
    /\ verdict.kind = "Accepted"
    /\ verdict.tokens = <<Tool_j, <<"/">>>>
    /\ Join(verdict.tokens) # cmd_line
    /\ RoundTrip

\* Position i of s starts a comment: an unquoted, unescaped `#` at the
\* start of a word.
CommentAt(s, i) ==
    /\ s[i] = "#"
    /\ ShellContext(s, i) = [q |-> "none", esc |-> FALSE]
    /\ \/ i = 1
       \/ IsSpace(s[i - 1]) /\ ShellContext(s, i - 1) = [q |-> "none", esc |-> FALSE]

\* s without its comment, if it has one.
BeforeComment(s) ==
    IF \E i \in 1..Len(s) : CommentAt(s, i)
    THEN LET i == CHOOSE i \in 1..Len(s) :
                     CommentAt(s, i) /\ \A k \in 1..(i - 1) : ~CommentAt(s, k)
         IN SubSeq(s, 1, i - 1)
    ELSE s

\* s ends inside a single- or double-quoted span that is never closed.
EndsInsideQuote(s) ==
    ShellContext(BeforeComment(s), Len(BeforeComment(s)) + 1).q \in {"single", "double"}

C19_EmptyCommand ==
    (pc = "validated" /\ \A i \in 1..Len(cmd_line) : IsSpace(cmd_line[i])) =>
        /\ RawSplit.ok
        /\ RawSplit.words = <<>>
        /\ verdict.kind = "EmptyCommand"
        /\ verdict.tokens = <<>>
        /\ calls.scanner = 0

\* C19 witness: two spaces are EmptyCommand in Unsafe mode.
C19_Witness ==
    /\ pc = "validated"
    /\ cli.unsafe_mode
    /\ cmd_line = <<" ", " ">>
    /\ verdict.kind = "EmptyCommand"

\* C26: the scanner and the tokenizer agree on quoting: after every prefix
\* of the raw string that the scanner reads to its end, the scanner is
\* inside a quoted span exactly when the tokenizer is (the tokenizer fails
\* on the prefix exactly when it ends inside a quoted span); so a raw
\* string the tokenizer accepts leaves both quote flags false.
C26_QuoteAgreement ==
    pc = "validated" =>
        \A k \in 0..Len(cmd_line) :
            LET prefix == SubSeq(cmd_line, 1, k)
                sc == ScanRun(prefix)
            IN sc.result = None =>
                  ((sc.in_single \/ sc.in_double) <=> ~Split(prefix).ok)

(***************************************************************************)
(* Specification of expand_glob_if_needed as a function applied to bounded *)
(* inputs: one argument and the contents of the working directory.         *)
(***************************************************************************)
GlobAlphabet == {"a", "b", "*", "?", "[", "]"}

GlobNames == {<<"a">>, <<"b">>, <<"a", "b">>, <<"*">>}

GlobFileSystems == SUBSET GlobNames

InitGlob ==
    /\ pc = "glob"
    /\ glob_out \in {[arg |-> a, expanded |-> None] :
                         a \in StringsUpTo(GlobAlphabet, MaxGlobLen)}
    /\ files \in GlobFileSystems
    /\ cli = NoCli
    /\ allowed_tools = {}
    /\ cmd_line = <<>>
    /\ verdict = NoVerdict
    /\ scan_out = NoScan
    /\ summary = NoSummary
    /\ outcome = "none"
    /\ calls = NoCalls
    /\ exec_calls = <<>>
    /\ spawned = <<>>
    /\ wait_status = <<>>
    /\ history = NoHistory
    /\ imp = NoImport

ExpandGlob ==
    /\ pc = "glob"
    /\ glob_out' = [glob_out EXCEPT
                       !.expanded = expand_glob_if_needed(glob_out.arg, files)]
    /\ pc' = "globbed"
    /\ UNCHANGED <<cli, allowed_tools, cmd_line, verdict, scan_out, summary,
                   outcome, calls, exec_calls, spawned, files, wait_status,
                   history, imp>>

NextGlob == ExpandGlob

SpecGlob == InitGlob /\ [][NextGlob]_vars

\* C16: an argument without `*`, `?` and `[` expands to itself alone; one
\* with such a character whose pattern is valid and has matches expands to
\* all the matches, and the pattern is not among them unless it names a
\* file; an invalid pattern or one without a match expands to itself
\* alone.  The expansion is never empty.
C16_GlobExpansion ==
    pc = "globbed" =>
        LET arg == glob_out.arg
            out == glob_out.expanded
            meta == \E i \in 1..Len(arg) : arg[i] \in GlobChars
            paths == GlobPaths(arg, files)
        IN /\ ~meta => out = <<arg>>
           /\ (meta /\ GlobValid(arg) /\ paths # <<>>) =>
                 /\ out = paths
                 /\ {out[k] : k \in 1..Len(out)} \subseteq files
                 /\ arg # <<"*", "*">> =>
                       {out[k] : k \in 1..Len(out)}
                           = {n \in files : GlobMatch(arg, 1, n, 1)}
           /\ (meta /\ (~GlobValid(arg) \/ paths = <<>>)) => out = <<arg>>
           /\ Len(out) >= 1

\* C16 witness: "*b" in a directory holding a, b and ab expands to the two
\* names ab and b, not to the pattern.
C16_Witness ==
    /\ pc = "globbed"
    /\ glob_out.arg = <<"*", "b">>
    /\ files = {<<"a">>, <<"b">>, <<"a", "b">>}
    /\ Len(glob_out.expanded) = 2
    /\ {glob_out.expanded[k] : k \in 1..2} = {<<"b">>, <<"a", "b">>}

(***************************************************************************)
(* Specification of the history log: write_entry and read_latest_entry     *)
(* called in any order on the two files, starting from what earlier runs   *)
(* can have left behind.                                                   *)
(***************************************************************************)
\* Lengths of a serialized entry: two of the smaller ones, or one larger one
\* after any other, pass HISTORY_MAX_BYTES.
EntrySizes == {400000, 700000}

OldLine == [entry |-> "e0", size |-> 400000]

JunkLine == [entry |-> None, size |-> 1]

InitHistory ==
    /\ pc = "history"
    /\ history \in {[NoHistory EXCEPT !.log = l, !.backup = b] :
                        l \in {NoFile, FileOf(<<>>), FileOf(<<OldLine>>),
                               FileOf(<<JunkLine>>)},
                        b \in {NoFile, FileOf(<<OldLine>>)}}
    /\ cli = NoCli
    /\ allowed_tools = {}
    /\ cmd_line = <<>>
    /\ verdict = NoVerdict
    /\ scan_out = NoScan
    /\ summary = NoSummary
    /\ outcome = "none"
    /\ calls = NoCalls
    /\ exec_calls = <<>>
    /\ spawned = <<>>
    /\ files = {}
    /\ glob_out = None
    /\ wait_status = <<>>
    /\ imp = NoImport

\* One write_entry call, with an entry not written before.
WriteEntry ==
    /\ pc = "history"
    /\ Len(history.writes) < MaxWrites
    /\ \E size \in EntrySizes, fault \in WriteOutcomes :
          LET e == ToString(Len(history.writes) + 1)
              r == write_entry(history.log, history.backup,
                               [entry |-> e, size |-> size], fault)
          IN history' = [history EXCEPT
                            !.log = r.log,
                            !.backup = r.backup,
                            !.writes = Append(@, [entry |-> e, ok |-> r.ok])]
    /\ UNCHANGED <<pc, cli, allowed_tools, cmd_line, verdict, scan_out, summary,
                   outcome, calls, exec_calls, spawned, files, glob_out,
                   wait_status, imp>>

\* One read_latest_entry call; its result is kept with the number of writes
\* made before it.
ReadLatest ==
    /\ pc = "history"
    /\ IF history.reads = <<>> THEN TRUE
       ELSE history.reads[1].at # Len(history.writes)
    /\ history' = [history EXCEPT
                      !.reads = <<[at |-> Len(history.writes),
                                   entry |-> read_latest_entry(history.log,
                                                               history.backup)]>>]
    /\ UNCHANGED <<pc, cli, allowed_tools, cmd_line, verdict, scan_out, summary,
                   outcome, calls, exec_calls, spawned, files, glob_out,
                   wait_status, imp>>

NextHistory ==
    \/ WriteEntry
    \/ ReadLatest

SpecHistory == InitHistory /\ [][NextHistory]_vars

\* C23: when every write_entry call so far succeeded, read_latest_entry
\* returns the entry of the latest call, whether the log was just rotated
\* away or a later write has created it anew.
C23_LatestEntryRead ==
    (/\ pc = "history"
     /\ history.writes # <<>>
     /\ \A k \in 1..Len(history.writes) : history.writes[k].ok) =>
        LET last == history.writes[Len(history.writes)].entry IN
        /\ read_latest_entry(history.log, history.backup) = last
        /\ (history.reads # <<>> /\ history.reads[1].at = Len(history.writes))
              => history.reads[1].entry = last

\* C23 witness: the second write rotated the log away; the entry was read
\* from the backup.
C23_Witness ==
    /\ pc = "history"
    /\ Len(history.writes) = 2
    /\ history.writes[1].ok /\ history.writes[2].ok
    /\ ~history.log.exists
    /\ history.backup.exists
    /\ history.reads = <<[at |-> 2, entry |-> "2"]>>

(***************************************************************************)
(* Specification of add_prompt_to_global (ops.rs): the tools of a prompt   *)
(* file are merged into the tools of the global config, conflicts being    *)
(* resolved at a prompt, and the merged list is written back.  A tool is   *)
(* [name, config].  imp holds the tools of the config file (config), the   *)
(* list loaded from it (existing), the incoming list, the merge in memory  *)
(* (merged), the index k of the incoming tool at hand, the index pos of    *)
(* the tool it conflicts with, and the lines read at the prompt (choices). *)
(***************************************************************************)
ToolNames == {"a", "b"}

\* The k-th tool of the global config, and of the prompt file.
GlobalTool(name, k) == [name |-> name, config |-> <<"global", k>>]
IncomingTool(name, k) == [name |-> name, config |-> <<"incoming", k>>]

ExistingLists ==
    UNION {{[k \in 1..n |-> GlobalTool(f[k], k)] : f \in [1..n -> ToolNames]} :
              n \in 0..MaxTools}

IncomingLists ==
    UNION {{[k \in 1..n |-> IncomingTool(f[k], k)] : f \in [1..n -> ToolNames]} :
              n \in 1..MaxTools}

\* merged.iter().position(|t| t.name == name): the first index, 0 for None.
Position(list, name) ==
    IF \E i \in 1..Len(list) : list[i].name = name
    THEN CHOOSE i \in 1..Len(list) :
             list[i].name = name /\ \A j \in 1..(i - 1) : list[j].name # name
    ELSE 0

\* Variant: the imported definition is added at the end.
Overwrite_appends(merged, pos, tool) == Append(merged, tool)

\* Variant: the global definition stays.
Overwrite_keeps(merged, pos, tool) == merged

\* merged[pos] = tool.clone()
Overwrite(merged, pos, tool) == [merged EXCEPT ![pos] = tool]

\* What io.read_line can deliver: a line, the end of the input, an error.
ImportAnswers == {"o", "s", "c", " O ", "S", "x", "\n", "eof", "read_error"}

\* buf.trim().to_lowercase()
NormalizeChoice(a) ==
    CASE a \in {"o", " O "} -> "o"
      [] a \in {"s", "S"} -> "s"
      [] a = "\n" -> ""
      [] OTHER -> a

\* Variant: the merge in memory is saved whatever the result.
ConfigAfter_saves_progress(result, config, merged) == merged

\* The tools in the config file when add_prompt_to_global returns: written
\* only after Applied.
ConfigAfter(result, config, merged) ==
    IF result = "Applied" THEN merged ELSE config

InitImport ==
    /\ pc = "import"
    /\ imp \in {[phase |-> "resolve", config |-> e, existing |-> e,
                  incoming |-> inc, interactive |-> t, merged |-> e, k |-> 1,
                  pos |-> 0, choices |-> <<>>, result |-> None] :
                    e \in ExistingLists, inc \in IncomingLists, t \in BOOLEAN}
    /\ cli = NoCli
    /\ allowed_tools = {}
    /\ cmd_line = <<>>
    /\ verdict = NoVerdict
    /\ scan_out = NoScan
    /\ summary = NoSummary
    /\ outcome = "none"
    /\ calls = NoCalls
    /\ exec_calls = <<>>
    /\ spawned = <<>>
    /\ files = {}
    /\ glob_out = None
    /\ wait_status = <<>>
    /\ history = NoHistory

ImportFrame ==
    UNCHANGED <<pc, cli, allowed_tools, cmd_line, verdict, scan_out, summary,
                outcome, calls, exec_calls, spawned, files, glob_out,
                wait_status, history>>

\* resolve_duplicate_tools and add_prompt_to_global return `result`.
ImportReturns(result) ==
    imp' = [imp EXCEPT !.phase = "done", !.result = result,
                       !.config = ConfigAfter(result, imp.config, imp.merged)]

\* for tool in incoming: a new name is pushed; a name already in merged is
\* a conflict, an error when the io is not interactive.
ResolveTool ==
    /\ pc = "import"
    /\ imp.phase = "resolve"
    /\ imp.k <= Len(imp.incoming)
    /\ LET tool == imp.incoming[imp.k]
           pos == Position(imp.merged, tool.name)
       IN IF pos = 0
          THEN imp' = [imp EXCEPT !.merged = Append(@, tool), !.k = @ + 1]
          ELSE IF ~imp.interactive THEN ImportReturns("NotInteractive")
          ELSE imp' = [imp EXCEPT !.phase = "prompt", !.pos = pos]
    /\ ImportFrame

\* One round of the choice loop: a line is read at the prompt.  choices
\* keeps, for each read, the incoming tool it was about, the trimmed and
\* lowercased line ("eof" and "read_error" stand for the end of the input
\* and a failed read) and the merge as it was before the read.
Choice ==
    /\ pc = "import"
    /\ imp.phase = "prompt"
    /\ Len(imp.choices) < MaxChoices
    /\ \E a \in ImportAnswers :
          LET tool == imp.incoming[imp.k]
              logged == [imp EXCEPT
                            !.choices = Append(@, [k |-> imp.k,
                                                   answer |-> NormalizeChoice(a),
                                                   before |-> imp.merged])]
          IN CASE a = "read_error" ->
                    imp' = [logged EXCEPT !.phase = "done", !.result = "IoError",
                               !.config = ConfigAfter("IoError", imp.config, imp.merged)]
               [] a = "eof" \/ NormalizeChoice(a) = "c" ->
                    imp' = [logged EXCEPT !.phase = "done", !.result = "Cancelled",
                               !.config = ConfigAfter("Cancelled", imp.config, imp.merged)]
               [] NormalizeChoice(a) = "o" ->
                    imp' = [logged EXCEPT !.merged = Overwrite(@, imp.pos, tool),
                                          !.k = @ + 1, !.phase = "resolve"]
               [] NormalizeChoice(a) = "s" ->
                    imp' = [logged EXCEPT !.k = @ + 1, !.phase = "resolve"]
               [] OTHER -> imp' = logged
    /\ ImportFrame

\* Ok(MergeResult::Applied(merged)); the merged tools are written to the
\* global config, unless the write fails.
Apply ==
    /\ pc = "import"
    /\ imp.phase = "resolve"
    /\ imp.k > Len(imp.incoming)
    /\ \/ ImportReturns("Applied")
       \/ ImportReturns("WriteError")
    /\ ImportFrame

NextImport ==
    \/ ResolveTool
    \/ Choice
    \/ Apply

SpecImport == InitImport /\ [][NextImport]_vars

Applied == imp.phase = "done" /\ imp.result = "Applied"

\* The user gave answer x at a conflict about the tool called name.
ChoseFor(name, x) ==
    \E i \in 1..Len(imp.choices) :
        /\ imp.choices[i].answer = x
        /\ imp.incoming[imp.choices[i].k].name = name

UniqueNames(list) ==
    \A i, j \in 1..Len(list) : list[i].name = list[j].name => i = j

\* The incoming tools whose names the existing list does not hold.
NewTools == SelectSeq(imp.incoming, LAMBDA t : Position(imp.existing, t.name) = 0)

\* Applied(merged) is the existing list, each definition replaced by an
\* incoming one exactly when 'o' was chosen for its name and kept when 's'
\* was, followed by the incoming tools with new names.
MergedByChoices ==
    /\ Len(imp.merged) = Len(imp.existing) + Len(NewTools)
    /\ \A i \in 1..Len(imp.existing) :
          /\ IF ChoseFor(imp.existing[i].name, "o")
             THEN \E k \in 1..Len(imp.incoming) :
                      /\ imp.incoming[k].name = imp.existing[i].name
                      /\ imp.merged[i] = imp.incoming[k]
             ELSE imp.merged[i] = imp.existing[i]
          /\ ChoseFor(imp.existing[i].name, "s") => imp.merged[i] = imp.existing[i]
    /\ SubSeq(imp.merged, Len(imp.existing) + 1, Len(imp.merged)) = NewTools

\* A line other than o, s, c leaves the merge as it was and the same
\* conflict is asked again.
OtherInputAsksAgain ==
    \A i \in 1..Len(imp.choices) :
        imp.choices[i].answer \notin {"o", "s", "c", "eof", "read_error"} =>
            IF i = Len(imp.choices)
            THEN /\ imp.phase = "prompt"
                 /\ imp.k = imp.choices[i].k
                 /\ imp.merged = imp.choices[i].before
            ELSE /\ imp.choices[i + 1].k = imp.choices[i].k
                 /\ imp.choices[i + 1].before = imp.choices[i].before

\* C24 as stated: whatever the two lists, Applied(merged) is the existing
\* list in order, a definition replaced by the incoming one exactly when
\* the user chose 'o' for its name and kept on 's', followed by the incoming
\* tools with new names in incoming order; any other input changes nothing
\* and asks again.  Violated when a name occurs twice in either list.
C24_MergedByChoices ==
    pc = "import" =>
        /\ Applied => MergedByChoices
        /\ OtherInputAsksAgain

\* C24: when no name occurs twice in the existing list and none occurs
\* twice in the incoming list, Applied(merged) is the existing list in
\* order, a definition replaced by the incoming one exactly when the user
\* chose 'o' for its name and kept on 's', followed by the incoming tools
\* with new names in incoming order; any other input changes nothing and
\* asks again.
C24_MergedByChoicesOfUniqueNames ==
    pc = "import" =>
        /\ (Applied /\ UniqueNames(imp.existing) /\ UniqueNames(imp.incoming))
               => MergedByChoices
        /\ OtherInputAsksAgain

\* After "x" and then "o" at the conflict about a, the tool b is appended.
C24_Witness ==
    /\ pc = "import"
    /\ Applied
    /\ imp.existing = <<GlobalTool("a", 1)>>
    /\ imp.incoming = <<IncomingTool("a", 1), IncomingTool("b", 2)>>
    /\ Len(imp.choices) = 2
    /\ imp.choices[1].answer = "x"
    /\ imp.choices[2].answer = "o"
    /\ imp.merged = imp.incoming
    /\ imp.config = imp.merged

\* The incoming tool at index j met a tool of its name in the merge.
ConflictAt(j) ==
    \/ Position(imp.existing, imp.incoming[j].name) # 0
    \/ \E i \in 1..(j - 1) : imp.incoming[i].name = imp.incoming[j].name

\* The incoming tools the loop has reached.
Reached ==
    IF imp.phase = "resolve" \/ imp.k > Len(imp.incoming) THEN imp.k - 1 ELSE imp.k

\* C25: 'c' or the end of the input at a conflict gives Cancelled, a
\* conflict with an io that is not interactive gives an error, and in both
\* cases the tools in the global config file are those it held before,
\* whatever the merge in memory had become.
C25_IncompleteImportChangesNothing ==
    pc = "import" =>
        /\ \A i \in 1..Len(imp.choices) :
              imp.choices[i].answer \in {"c", "eof"} =>
                  /\ i = Len(imp.choices)
                  /\ imp.phase = "done"
                  /\ imp.result = "Cancelled"
        /\ (~imp.interactive /\ \E j \in 1..Reached : ConflictAt(j)) =>
              /\ imp.phase = "done"
              /\ imp.result = "NotInteractive"
        /\ (imp.phase = "done" /\ imp.result \in {"Cancelled", "NotInteractive"}) =>
              imp.config = imp.existing

\* Cancelled at the second conflict, after an overwrite in memory.
C25_Witness ==
    /\ pc = "import"
    /\ imp.phase = "done"
    /\ imp.result = "Cancelled"
    /\ ChoseFor("a", "o")
    /\ imp.merged # imp.existing
    /\ imp.config = imp.existing

\* C30: when no two existing tools share a name, no two tools of a list
\* returned as Applied share a name, whatever the incoming list and the
\* answers.
C30_UniqueNamesPreserved ==
    (pc = "import" /\ Applied /\ UniqueNames(imp.existing)) =>
        UniqueNames(imp.merged)

\* An incoming list that repeats b: the second b overwrites the first.
C30_Witness ==
    /\ pc = "import"
    /\ Applied
    /\ UniqueNames(imp.existing)
    /\ Len(imp.incoming) = 2
    /\ imp.incoming[1].name = "b"
    /\ imp.incoming[2].name = "b"
    /\ Position(imp.existing, "b") = 0
    /\ ChoseFor("b", "o")
    /\ imp.merged = Append(imp.existing, imp.incoming[2])

(***************************************************************************)
(* run_with_reader: one invocation of the program, from the parsed command *)
(* line to the RunSummary or error it returns.  The steps are the calls it *)
(* makes to its collaborators (configuration, generator, reader,           *)
(* executor), whose answers are the inputs of the model.                   *)
(***************************************************************************)
RunAlphabet == {"j", " ", "|", "'", "*"}

\* The generator returns the first line of the reply, trimmed and not empty.
CmdLines ==
    {s \in StringsUpTo(RunAlphabet, MaxCmdLen) :
        s # <<>> /\ s[1] # " " /\ s[Len(s)] # " "}

ManagementOps == {"init", "create_prompt", "add_prompt", "list_tools"}

\* --analyze "cannot be combined with other options or prompts" (help.rs).
CliSet ==
    {[op |-> "run", unsafe_mode |-> u, confirm |-> c, explain |-> e,
      analyze |-> FALSE] : u \in BOOLEAN, c \in BOOLEAN, e \in BOOLEAN}
    \cup {[NoCli EXCEPT !.analyze = TRUE]}
    \cup {[NoCli EXCEPT !.op = o] : o \in ManagementOps}

\* The allowed sets of a run: a tool may bear any non-empty name, one made
\* of a glob character too.
Tool_star == <<"*">>
RunAllowedSets == AllowedSets \cup {{Tool_j, Tool_star}}

File_j == <<"j">>
File_pipe_j == <<"|", "j">>
FileSystems == {{}, {File_j}, {File_j, File_pipe_j}}

\* The lines the reader can deliver to confirm(): "" stands for end of input.
Answers == {"y", "yes", " Y ", "YES", "n", "", "yy"}

\* buf.trim().to_lowercase()
TrimLower(a) ==
    CASE a \in {"y", " Y "} -> "y"
      [] a \in {"yes", "YES"} -> "yes"
      [] OTHER -> a

\* Variant: only --confirm asks for a confirmation.
from_cli_confirm_flag_only(c) ==
    [exit_code |-> 0, generated_command |-> None, unsafe_mode |-> c.unsafe_mode,
     confirm |-> c.confirm, explain |-> c.explain, notes |-> None]

\* RunSummary::from_cli
from_cli(c) ==
    [exit_code |-> 0, generated_command |-> None, unsafe_mode |-> c.unsafe_mode,
     confirm |-> c.confirm \/ c.unsafe_mode \/ c.explain, explain |-> c.explain,
     notes |-> None]

\* Variant: the analyze summary asks for confirmation.
analyze_mode_confirming ==
    [exit_code |-> 0, generated_command |-> None, unsafe_mode |-> FALSE,
     confirm |-> TRUE, explain |-> FALSE, notes |-> None]

\* RunSummary::analyze_mode
analyze_mode ==
    [exit_code |-> 0, generated_command |-> None, unsafe_mode |-> FALSE,
     confirm |-> FALSE, explain |-> FALSE, notes |-> None]

\* The history an --analyze run can find: nothing, an entry in the log, an
\* entry in the backup only, a log without a line that parses.
AnalyzeHistories ==
    {NoHistory,
     [NoHistory EXCEPT !.log = FileOf(<<[entry |-> "e0", size |-> 400000]>>)],
     [NoHistory EXCEPT !.backup = FileOf(<<[entry |-> "e0", size |-> 400000]>>)],
     [NoHistory EXCEPT !.log = FileOf(<<[entry |-> None, size |-> 1]>>)]}

Init ==
    /\ pc = "start"
    /\ cli \in CliSet
    /\ allowed_tools = {}
    /\ cmd_line = <<>>
    /\ verdict = NoVerdict
    /\ scan_out = NoScan
    /\ summary = NoSummary
    /\ outcome = "none"
    /\ calls = NoCalls
    /\ exec_calls = <<>>
    /\ spawned = <<>>
    /\ files = {}
    /\ glob_out = None
    /\ wait_status = <<>>
    /\ history \in (IF cli.op = "run" /\ cli.analyze THEN AnalyzeHistories
                    ELSE {NoHistory})
    /\ imp = NoImport

\* return Err(..): the `?` on a failed step
Fail ==
    /\ outcome' = "Err"
    /\ pc' = "done"

\* --init, --create-prompt, --add-prompt, --list-tools: the operation runs and
\* run_with_reader returns without generating anything.
Management ==
    /\ pc = "start"
    /\ cli.op \in ManagementOps
    /\ \E ok \in BOOLEAN :
          IF ok
          THEN /\ summary' = [from_cli(cli) EXCEPT !.notes = cli.op]
               /\ outcome' = "Ok"
               /\ pc' = "done"
          ELSE Fail /\ UNCHANGED summary
    /\ UNCHANGED <<cli, allowed_tools, cmd_line, verdict, scan_out, calls,
                   exec_calls, spawned, files,
                   glob_out, wait_status, history, imp>>

\* --analyze: run_analyze explains the latest history entry, if there is one.
Analyze ==
    /\ pc = "start"
    /\ cli.op = "run"
    /\ cli.analyze
    /\ \E r \in {"config_error", "history_error"}
                 \cup (IF read_latest_entry(history.log, history.backup) = None
                       THEN {"no_history"}
                       ELSE {"respond_error", "explained"}) :
          CASE r \in {"config_error", "history_error"} ->
                  Fail /\ UNCHANGED <<summary, calls>>
            [] r = "no_history" ->
                  /\ summary' = [analyze_mode EXCEPT !.notes = "analyze mode",
                                                     !.exit_code = 2]
                  /\ outcome' = "Ok"
                  /\ pc' = "done"
                  /\ UNCHANGED calls
            [] r = "respond_error" ->
                  /\ Fail
                  /\ calls' = [calls EXCEPT !.respond = @ + 1]
                  /\ UNCHANGED summary
            [] r = "explained" ->
                  /\ summary' = [analyze_mode EXCEPT !.notes = "analyze mode"]
                  /\ outcome' = "Ok"
                  /\ pc' = "done"
                  /\ calls' = [calls EXCEPT !.respond = @ + 1]
    /\ UNCHANGED <<cli, allowed_tools, cmd_line, verdict, scan_out, exec_calls,
                   spawned, files,
                   glob_out, wait_status, history, imp>>

\* Configuration: global config, prompt config, system prompt (which yields
\* the allowed tools), peek context, AI settings.  Any of them can fail.
Setup ==
    /\ pc = "start"
    /\ cli.op = "run"
    /\ ~cli.analyze
    /\ \/ /\ Fail
          /\ UNCHANGED allowed_tools
       \/ /\ allowed_tools' \in RunAllowedSets
          /\ pc' = "generate"
          /\ UNCHANGED outcome
    /\ UNCHANGED <<cli, cmd_line, verdict, scan_out, summary, calls, exec_calls,
                   spawned, files,
                   glob_out, wait_status, history, imp>>

\* generator.generate(..)?
Generate ==
    /\ pc = "generate"
    /\ calls' = [calls EXCEPT !.generate = @ + 1]
    /\ \/ /\ Fail
          /\ UNCHANGED cmd_line
       \/ /\ cmd_line' \in CmdLines
          /\ pc' = "validate"
          /\ UNCHANGED outcome
    /\ UNCHANGED <<cli, allowed_tools, verdict, scan_out, summary, exec_calls,
                   spawned, files,
                   glob_out, wait_status, history, imp>>

\* Variant: a command rejected for an operator is validated again in unsafe
\* mode and the run goes on in that mode.
CheckCommand_escalates ==
    /\ pc = "validate"
    /\ LET first == validate_and_split_command(cmd_line, allowed_tools,
                                               cli.unsafe_mode)
           retry == first.kind = "DisallowedOperator"
           args(u) == [raw |-> cmd_line, allowed |-> allowed_tools,
                       unsafe_mode |-> u]
       IN /\ verdict' = IF retry
                        THEN validate_and_split_command(cmd_line, allowed_tools, TRUE)
                        ELSE first
          /\ cli' = IF retry THEN [cli EXCEPT !.unsafe_mode = TRUE] ELSE cli
          /\ calls' = [calls EXCEPT
                          !.scanner = IF first.scanned THEN @ + 1 ELSE @,
                          !.validated =
                              IF retry
                              THEN @ \o <<args(cli.unsafe_mode), args(TRUE)>>
                              ELSE Append(@, args(cli.unsafe_mode))]
    /\ IF verdict'.kind = "Accepted"
       THEN /\ summary' = [from_cli(cli') EXCEPT !.generated_command = cmd_line]
            /\ pc' = "explain"
            /\ UNCHANGED outcome
       ELSE Fail /\ UNCHANGED summary
    /\ UNCHANGED <<allowed_tools, cmd_line, scan_out, exec_calls, spawned, files,
                   glob_out, wait_status, history, imp>>

\* let tokens = validate_and_split_command(&cmd_line, &allowed_tools,
\* cli.unsafe_mode)?; then the summary is created.
CheckCommand ==
    /\ pc = "validate"
    /\ verdict' = validate_and_split_command(cmd_line, allowed_tools, cli.unsafe_mode)
    /\ calls' = [calls EXCEPT
                    !.scanner = IF verdict'.scanned THEN @ + 1 ELSE @,
                    !.validated = Append(@, [raw |-> cmd_line,
                                             allowed |-> allowed_tools,
                                             unsafe_mode |-> cli.unsafe_mode])]
    /\ IF verdict'.kind = "Accepted"
       THEN /\ summary' = [from_cli(cli) EXCEPT !.generated_command = cmd_line]
            /\ pc' = "explain"
            /\ UNCHANGED outcome
       ELSE Fail /\ UNCHANGED summary
    /\ UNCHANGED <<cli, allowed_tools, cmd_line, scan_out, exec_calls, spawned,
                   files,
                   glob_out, wait_status, history, imp>>

\* if cli.explain { print_command_explanation(..)?; }: the explainer's reply
\* or failure is only printed.
\* Variant: the explanation is never requested.
Explain_without_request ==
    /\ pc = "explain"
    /\ pc' = "confirm"
    /\ UNCHANGED <<cli, allowed_tools, cmd_line, verdict, scan_out, summary,
                   outcome, calls, exec_calls, spawned, files,
                   glob_out, wait_status, history, imp>>

Explain ==
    /\ pc = "explain"
    /\ calls' = [calls EXCEPT !.respond = IF cli.explain THEN @ + 1 ELSE @]
    /\ pc' = "confirm"
    /\ UNCHANGED <<cli, allowed_tools, cmd_line, verdict, scan_out, summary,
                   outcome, exec_calls, spawned, files,
                   glob_out, wait_status, history, imp>>

\* if summary.confirm && !confirm(reader, ..)? { cancelled }
Confirm ==
    /\ pc = "confirm"
    /\ IF summary.confirm
       THEN \E a \in Answers \cup {"read_error"} :
               /\ calls' = [calls EXCEPT !.confirm = @ + 1,
                                         !.answers = Append(@, a)]
               /\ IF a = "read_error" THEN Fail /\ UNCHANGED summary
                  ELSE IF TrimLower(a) \in {"y", "yes"}
                  THEN /\ pc' = "execute"
                       /\ UNCHANGED <<summary, outcome>>
                  ELSE /\ summary' = [summary EXCEPT !.exit_code = 0,
                                                     !.notes = "cancelled"]
                       /\ outcome' = "Ok"
                       /\ pc' = "done"
       ELSE /\ pc' = "execute"
            /\ UNCHANGED <<summary, outcome, calls>>
    /\ UNCHANGED <<cli, allowed_tools, cmd_line, verdict, scan_out, exec_calls,
                   spawned, files,
                   glob_out, wait_status, history, imp>>

\* let status = executor.execute(&cmd_line, &tokens, cli.unsafe_mode)?;
\* with ShellCommandExecutor as the executor.
Execute ==
    /\ pc = "execute"
    /\ \E fs \in FileSystems, platform \in Platforms, out \in SpawnOutcomes :
          /\ files' = fs
          /\ exec_calls' = Append(exec_calls,
                                  [cmd_line |-> cmd_line, tokens |-> verdict.tokens,
                                   unsafe_mode |-> cli.unsafe_mode])
          /\ spawned' = Append(spawned,
                               execute_command(cmd_line, verdict.tokens,
                                               cli.unsafe_mode, fs, platform))
          /\ wait_status' = Append(wait_status, out)
          /\ IF out.kind = "spawn_error"
             THEN Fail /\ UNCHANGED summary
             ELSE /\ summary' = [summary EXCEPT !.exit_code = ExitStatus(out)]
                  /\ outcome' = "Ok"
                  /\ pc' = "done"
    /\ UNCHANGED <<cli, allowed_tools, cmd_line, verdict, scan_out, calls,
                   glob_out, history, imp>>

Next ==
    \/ Management
    \/ Analyze
    \/ Setup
    \/ Generate
    \/ CheckCommand
    \/ Explain
    \/ Confirm
    \/ Execute

Spec == Init /\ [][Next]_vars

Range(seq) == {seq[k] : k \in 1..Len(seq)}

\* The process is a platform shell given the whole raw string as one argument.
IsShellSpawn(p, raw) ==
    \E platform \in Platforms :
        p = [program |-> ShellProgram(platform),
             args |-> <<ShellFlag(platform), raw>>]

\* C5: execute starts a platform shell (sh -c / cmd /C with the whole raw
\* string as one argument) if and only if the mode is Unsafe.  In Safe mode
\* the process image is tokens[0] and every argument is a token of
\* tokens[1..] or a name glob expansion found for one (tokens without glob
\* characters are the arguments, unchanged); nothing is validated or scanned
\* again for the execution.
C5_ShellOnlyInUnsafe ==
    /\ Len(spawned) = Len(exec_calls)
    /\ \A k \in 1..Len(spawned) :
          LET e == exec_calls[k]
              p == spawned[k]
          IN /\ IsShellSpawn(p, e.cmd_line) <=> e.unsafe_mode
             /\ ~e.unsafe_mode =>
                   /\ p.program = e.tokens[1]
                   /\ \A a \in Range(p.args) :
                         a \in Range(Tail(e.tokens)) \/ a \in files
                   /\ Len(p.args) >= Len(e.tokens) - 1
                   /\ (\A t \in Range(Tail(e.tokens)) : ~HasGlobChar(t))
                         => p.args = Tail(e.tokens)
             /\ calls.scanner = (IF e.unsafe_mode THEN 0 ELSE 1)
             /\ Len(calls.validated) = 1

\* C5 witness: Safe mode ran "j '*'" in a directory holding "j" and "|j":
\* the process is j with the two names as arguments, the `|` of the second
\* name included.
C5_Witness ==
    /\ pc = "done"
    /\ ~cli.unsafe_mode
    /\ cmd_line = <<"j", " ", "'", "*", "'">>
    /\ files = {File_j, File_pipe_j}
    /\ spawned = <<[program |-> <<"j">>, args |-> <<File_j, File_pipe_j>>]>>

\* C6: within one run the executor is invoked at most once, only after
\* validate_and_split_command accepted the generated command, and with that
\* command string, the tokens validation returned and the unsafe flag
\* validation used.  When validation rejects, the run ends with an error and
\* nothing is executed; the command is generated and validated once and
\* never changes, and the mode never changes.
C6_State ==
    /\ Len(exec_calls) <= 1
    /\ calls.generate <= 1
    /\ Len(calls.validated) <= 1
    /\ exec_calls # <<>> =>
          /\ verdict.kind = "Accepted"
          /\ Len(calls.validated) = 1
          /\ exec_calls[1] = [cmd_line |-> calls.validated[1].raw,
                              tokens |-> verdict.tokens,
                              unsafe_mode |-> calls.validated[1].unsafe_mode]
          /\ calls.validated[1].unsafe_mode = cli.unsafe_mode
          /\ calls.validated[1].raw = cmd_line
          /\ verdict = validate_and_split_command(calls.validated[1].raw,
                                                  calls.validated[1].allowed,
                                                  calls.validated[1].unsafe_mode)
    /\ verdict.kind \notin {None, "Accepted"} =>
          /\ pc = "done"
          /\ outcome = "Err"
          /\ exec_calls = <<>>
          /\ spawned = <<>>
          /\ calls.generate = 1
          /\ Len(calls.validated) = 1
          /\ calls.validated[1].unsafe_mode = cli.unsafe_mode

C6_ExecuteOnceAfterValidation ==
    /\ []C6_State
    /\ [][/\ cli' = cli
          /\ pc # "generate" => cmd_line' = cmd_line]_vars

\* C6 witness: a run in Safe mode whose command was accepted and executed
\* once.
C6_Witness ==
    /\ pc = "done"
    /\ outcome = "Ok"
    /\ ~cli.unsafe_mode
    /\ verdict.kind = "Accepted"
    /\ Len(exec_calls) = 1
    /\ exec_calls[1].tokens = <<<<"j">>, <<"j">>>>

\* C17: execute returns the child's exit code, or 1 when the child has none
\* (ended by a signal); either way the run succeeds.  Only a failure to
\* start the process is an error, and then no exit status is returned.
C17_ExitStatus ==
    (pc = "done" /\ wait_status # <<>>) =>
        LET out == wait_status[1] IN
        /\ Len(wait_status) = 1
        /\ out.kind = "exit" => (outcome = "Ok" /\ summary.exit_code = out.code)
        /\ out.kind = "signal" => (outcome = "Ok" /\ summary.exit_code = 1)
        /\ out.kind = "spawn_error" <=> outcome = "Err"

\* C17 witness: the child was ended by a signal and the run returned
\* exit_code 1.
C17_Witness ==
    /\ pc = "done"
    /\ wait_status = <<[kind |-> "signal", code |-> 0]>>
    /\ outcome = "Ok"
    /\ summary.exit_code = 1

\* One of --confirm, --unsafe, --explain is set.
ConfirmRequested == cli.confirm \/ cli.unsafe_mode \/ cli.explain

\* The line read by confirm() is a yes.
IsYes(a) == TrimLower(a) \in {"y", "yes"}

\* The run has a summary: it returned one, or is past validation.
HasSummary == outcome = "Ok" \/ pc \in {"explain", "confirm", "execute"}

\* With a flag set the executor runs only after one prompt answered yes;
\* after any other line (or end of input) the run is over, cancelled with
\* exit_code 0, and nothing was executed.
PromptGuardsExecute ==
    /\ (ConfirmRequested /\ exec_calls # <<>>) =>
          /\ calls.confirm = 1
          /\ Len(calls.answers) = 1
          /\ IsYes(calls.answers[1])
    /\ (/\ calls.answers # <<>>
        /\ calls.answers[1] # "read_error"
        /\ ~IsYes(calls.answers[1])) =>
          /\ pc = "done"
          /\ outcome = "Ok"
          /\ summary.exit_code = 0
          /\ summary.notes = "cancelled"
          /\ exec_calls = <<>>
          /\ spawned = <<>>

C22_AnalyzeNeverExecutes ==
    (cli.op = "run" /\ cli.analyze) =>
        /\ exec_calls = <<>>
        /\ spawned = <<>>
        /\ calls.generate = 0
        /\ outcome = "Ok" =>
              /\ ~summary.confirm
              /\ read_latest_entry(history.log, history.backup) = None
                    => (summary.exit_code = 2 /\ calls.respond = 0)

\* C22 witness: an --analyze run without any history returned exit_code 2.
C22_Witness ==
    /\ pc = "done"
    /\ cli.analyze
    /\ history = NoHistory
    /\ outcome = "Ok"
    /\ summary.exit_code = 2
    /\ ~summary.confirm

RECURSIVE Flatten(_)
Flatten(seqs) == IF seqs = <<>> THEN <<>> ELSE seqs[1] \o Flatten(Tail(seqs))

\* C28: in Safe mode the process is tokens[0] itself, never its expansion,
\* and its arguments are the expansions of the decoded tokens after the
\* first, in order, however the token was quoted in the raw command: the
\* quoted pattern of "j '*'" and the bare one of "j *" expand alike.
C28_GlobFromDecodedTokens ==
    \A k \in 1..Len(spawned) :
        LET e == exec_calls[k]
            p == spawned[k]
        IN ~e.unsafe_mode =>
              /\ p.program = e.tokens[1]
              /\ p.args = Flatten([j \in 1..(Len(e.tokens) - 1) |->
                                     expand_glob_if_needed(e.tokens[j + 1], files)])
              /\ (/\ e.cmd_line \in {<<"j", " ", "'", "*", "'">>, <<"j", " ", "*">>}
                  /\ files # {})
                 => p.args = SortedNames(files)

\* C28 witness: Safe mode ran "* '*'" under the allowed set {j, *} in a
\* directory holding "j": the program is "*" and the quoted argument was
\* expanded to "j".
C28_Witness ==
    /\ pc = "done"
    /\ ~cli.unsafe_mode
    /\ cmd_line = <<"*", " ", "'", "*", "'">>
    /\ files = {File_j}
    /\ spawned = <<[program |-> <<"*">>, args |-> <<File_j>>]>>

====
